---------------------------- MODULE Spec2Model ----------------------------
(***************************************************************************)
(* ELP Market Radar: the scan-and-score pipeline (app/main.py,             *)
(* run_radar_once), its storage gateway (app/storage.py), the keyword      *)
(* scorer and the tenant matcher (app/scoring.py) and the job-board        *)
(* helpers (app/hh_jobs.py).                                               *)
(*                                                                         *)
(* Text is modelled as a sequence of Unicode code points, so that          *)
(* `keyword in text` is a real substring search and str.lower() a real     *)
(* case mapping.  A comment after each sequence gives the text it spells.  *)
(***************************************************************************)
EXTENDS Integers, Sequences, FiniteSets, TLC

(***************************************************************************)
(* Text primitives                                                         *)
(***************************************************************************)

\* A case mapping that knows the Latin letters only.
LowerCharAsciiOnly(c) == IF c >= 65 /\ c <= 90 THEN c + 32 ELSE c

\* str.lower() on one code point: A-Z, the Cyrillic capitals and the letter Yo.
LowerChar(c) ==
  IF c >= 65 /\ c <= 90 THEN c + 32
  ELSE IF c >= 1040 /\ c <= 1071 THEN c + 32
  ELSE IF c = 1025 THEN 1105
  ELSE c

\* text.lower()
Lower(text) == [i \in 1..Len(text) |-> LowerChar(text[i])]

\* `keyword in text`
Contains(keyword, text) ==
  \E i \in 0..(Len(text) - Len(keyword)) :
     \A j \in 1..Len(keyword) : text[i + j] = keyword[j]

\* any(keyword in text for keyword in keywords)
AnyKeyword(keywords, text) ==
  \E k \in 1..Len(keywords) : Contains(keywords[k], text)

\* f"{title} {summary}"
TitleSummary(title, summary) == title \o <<32>> \o summary

\* An optional value: None is the empty tuple, a present value x is <<x>>.
None == <<>>
Some(x) == <<x>>

Min2(a, b) == IF a <= b THEN a ELSE b
Max2(a, b) == IF a >= b THEN a ELSE b

(***************************************************************************)
(* app/scoring.py, app/hh_jobs.py: the keyword tables                      *)
(***************************************************************************)

STRONG_SIGNAL_KEYWORDS == <<
  <<119, 97, 114, 101, 104, 111, 117, 115, 101>>,  \* warehouse
  <<100, 105, 115, 116, 114, 105, 98, 117, 116, 105, 111, 110, 32, 99, 101, 110, 116, 101, 114>>,  \* distribution center
  <<100, 105, 115, 116, 114, 105, 98, 117, 116, 105, 111, 110, 32, 99, 101, 110, 116, 114, 101>>,  \* distribution centre
  <<108, 111, 103, 105, 115, 116, 105, 99, 115, 32, 104, 117, 98>>,  \* logistics hub
  <<102, 117, 108, 102, 105, 108, 108, 109, 101, 110, 116, 32, 99, 101, 110, 116, 101, 114>>,  \* fulfillment center
  <<102, 117, 108, 102, 105, 108, 109, 101, 110, 116, 32, 99, 101, 110, 116, 101, 114>>,  \* fulfilment center
  <<115, 117, 112, 112, 108, 121, 32, 99, 104, 97, 105, 110>>,  \* supply chain
  <<119, 97, 114, 101, 104, 111, 117, 115, 101, 32, 106, 111, 98, 115>>,  \* warehouse jobs
  <<108, 111, 103, 105, 115, 116, 105, 99, 115, 32, 106, 111, 98, 115>>,  \* logistics jobs
  <<1074, 1072, 1082, 1072, 1085, 1089>>,  \* ваканс
  <<1089, 1082, 1083, 1072, 1076>>,  \* склад
  <<1088, 1072, 1089, 1087, 1088, 1077, 1076, 1077, 1083, 1080, 1090, 1077, 1083, 1100, 1085, 1099, 1081, 32, 1094, 1077, 1085, 1090, 1088>>,  \* распределительный центр
  <<1083, 1086, 1075, 1080, 1089, 1090, 1080, 1095, 1077, 1089, 1082, 1080, 1081, 32, 1094, 1077, 1085, 1090, 1088>>,  \* логистический центр
  <<1083, 1086, 1075, 1080, 1089, 1090, 1080, 1095, 1077, 1089, 1082, 1080, 1081, 32, 1093, 1072, 1073>>,  \* логистический хаб
  <<1092, 1091, 1083, 1092, 1080, 1083, 1084, 1077, 1085, 1090>>,  \* фулфилмент
  <<1094, 1077, 1085, 1090, 1088, 32, 1086, 1073, 1088, 1072, 1073, 1086, 1090, 1082, 1080, 32, 1079, 1072, 1082, 1072, 1079, 1086, 1074>>,  \* центр обработки заказов
  <<1090, 1077, 1085, 1076, 1077, 1088>>,  \* тендер
  <<1079, 1072, 1082, 1091, 1087, 1082>>,  \* закупк
  <<1080, 1085, 1074, 1077, 1089, 1090, 1080, 1094>>,  \* инвестиц
  <<1088, 1072, 1089, 1096, 1080, 1088, 1077, 1085>>,  \* расширен
  <<1086, 1090, 1082, 1088, 1099, 1090>>,  \* открыт
  <<1079, 1072, 1087, 1091, 1089, 1082>>,  \* запуск
  <<1089, 1090, 1088, 1086, 1080, 1090, 1077, 1083, 1100, 1089, 1090, 1074>>  \* строительств
  >>

REGION_KEYWORDS == <<
  <<107, 97, 122, 97, 107, 104, 115, 116, 97, 110>>,  \* kazakhstan
  <<1072, 1083, 1084, 1072, 1090, 1099>>,  \* алматы
  <<97, 108, 109, 97, 116, 121>>,  \* almaty
  <<1072, 1089, 1090, 1072, 1085, 1072>>,  \* астана
  <<97, 115, 116, 97, 110, 97>>,  \* astana
  <<107, 97, 122, 97, 107, 104>>,  \* kazakh
  <<1082, 1072, 1079, 1072, 1093, 1089, 1090, 1072, 1085>>,  \* казахстан
  <<1094, 1077, 1085, 1090, 1088, 1072, 1083, 1100, 1085, 1072, 1103, 32, 1072, 1079, 1080, 1103>>,  \* центральная азия
  <<99, 101, 110, 116, 114, 97, 108, 32, 97, 115, 105, 97>>  \* central asia
  >>

SEGMENT_KEYWORDS == <<
  \* E-COM
  [segment |-> "E-COM", keywords |-> <<
      <<101, 45, 99, 111, 109, 109, 101, 114, 99, 101>>,  \* e-commerce
      <<101, 99, 111, 109, 109, 101, 114, 99, 101>>,  \* ecommerce
      <<1086, 1085, 1083, 1072, 1081, 1085>>,  \* онлайн
      <<1084, 1072, 1088, 1082, 1077, 1090, 1087, 1083, 1077, 1081, 1089>>,  \* маркетплейс
      <<109, 97, 114, 107, 101, 116, 112, 108, 97, 99, 101>>  \* marketplace
    >>],
  \* 3PL
  [segment |-> "3PL", keywords |-> <<
      <<51, 112, 108>>,  \* 3pl
      <<108, 111, 103, 105, 115, 116, 105, 99, 115, 32, 112, 114, 111, 118, 105, 100, 101, 114>>,  \* logistics provider
      <<1083, 1086, 1075, 1080, 1089, 1090, 1080, 1095, 1077, 1089, 1082, 1080, 1081, 32, 1086, 1087, 1077, 1088, 1072, 1090, 1086, 1088>>,  \* логистический оператор
      <<1092, 1091, 1083, 1092, 1080, 1083, 1084, 1077, 1085, 1090>>  \* фулфилмент
    >>],
  \* FMCG
  [segment |-> "FMCG", keywords |-> <<
      <<102, 109, 99, 103>>,  \* fmcg
      <<102, 111, 111, 100>>,  \* food
      <<114, 101, 116, 97, 105, 108>>,  \* retail
      <<1088, 1080, 1090, 1077, 1081, 1083>>,  \* ритейл
      <<1087, 1088, 1086, 1076, 1091, 1082, 1090>>,  \* продукт
      <<1090, 1086, 1074, 1072, 1088, 1099, 32, 1087, 1086, 1074, 1089, 1077, 1076, 1085, 1077, 1074, 1085, 1086, 1075, 1086, 32, 1089, 1087, 1088, 1086, 1089, 1072>>  \* товары повседневного спроса
    >>],
  \* Distribution
  [segment |-> "Distribution", keywords |-> <<
      <<1076, 1080, 1089, 1090, 1088, 1080, 1073, 1091, 1094>>,  \* дистрибуц
      <<1076, 1080, 1089, 1090, 1088, 1080, 1073, 1100, 1102, 1090>>,  \* дистрибьют
      <<100, 105, 115, 116, 114, 105, 98, 117, 116, 105, 111, 110>>,  \* distribution
      <<1076, 1080, 1089, 1090, 1088, 1080, 1073, 1091, 1094, 1080, 1086, 1085, 1085, 1099, 1081, 32, 1094, 1077, 1085, 1090, 1088>>,  \* дистрибуционный центр
      <<1088, 1072, 1089, 1087, 1088, 1077, 1076, 1077, 1083, 1080, 1090, 1077, 1083, 1100, 1085, 1099, 1081, 32, 1094, 1077, 1085, 1090, 1088>>,  \* распределительный центр
      <<1086, 1087, 1090, 1086, 1074, 1099, 1081>>  \* оптовый
    >>],
  \* Warehouse Real Estate
  [segment |-> "Warehouse Real Estate", keywords |-> <<
      <<1072, 1088, 1077, 1085, 1076, 1072, 32, 1089, 1082, 1083, 1072, 1076, 1072>>,  \* аренда склада
      <<1089, 1082, 1083, 1072, 1076, 1089, 1082, 1072, 1103, 32, 1085, 1077, 1076, 1074, 1080, 1078, 1080, 1084, 1086, 1089, 1090, 1100>>,  \* складская недвижимость
      <<1089, 1082, 1083, 1072, 1076, 1089, 1082, 1086, 1081, 32, 1082, 1086, 1084, 1087, 1083, 1077, 1082, 1089>>,  \* складской комплекс
      <<1089, 1082, 1083, 1072, 1076, 1089, 1082, 1086, 1081, 32, 1087, 1072, 1088, 1082>>,  \* складской парк
      <<1083, 1086, 1075, 1080, 1089, 1090, 1080, 1095, 1077, 1089, 1082, 1080, 1081, 32, 1087, 1072, 1088, 1082>>,  \* логистический парк
      <<1080, 1085, 1076, 1091, 1089, 1090, 1088, 1080, 1072, 1083, 1100, 1085, 1099, 1081, 32, 1087, 1072, 1088, 1082>>,  \* индустриальный парк
      <<1080, 1085, 1076, 1091, 1089, 1090, 1088, 1080, 1072, 1083, 1100, 1085, 1072, 1103, 32, 1079, 1086, 1085, 1072>>,  \* индустриальная зона
      <<1089, 1082, 1083, 1072, 1076, 32, 1082, 1083, 1072, 1089, 1089, 32, 97>>,  \* склад класс a
      <<1089, 1082, 1083, 1072, 1076, 32, 1082, 1083, 1072, 1089, 1089, 32, 98>>,  \* склад класс b
      <<1089, 1082, 1083, 1072, 1076, 32, 1082, 1083, 1072, 1089, 1089, 32, 99>>,  \* склад класс c
      <<119, 97, 114, 101, 104, 111, 117, 115, 105, 110, 103>>,  \* warehousing
      <<119, 97, 114, 101, 104, 111, 117, 115, 101, 32, 108, 101, 97, 115, 105, 110, 103>>  \* warehouse leasing
    >>],
  \* Auto/Spec Tech
  [segment |-> "Auto/Spec Tech", keywords |-> <<
      <<1072, 1074, 1090, 1086, 1089, 1087, 1077, 1094, 1090, 1077, 1093>>,  \* автоспецтех
      <<1089, 1087, 1077, 1094, 1090, 1077, 1093>>,  \* спецтех
      <<1089, 1082, 1083, 1072, 1076, 1089, 1082, 1072, 1103, 32, 1090, 1077, 1093, 1085, 1080, 1082, 1072>>,  \* складская техника
      <<1087, 1086, 1075, 1088, 1091, 1079, 1095, 1080, 1082>>,  \* погрузчик
      <<102, 111, 114, 107, 108, 105, 102, 116>>,  \* forklift
      <<114, 101, 97, 99, 104, 32, 116, 114, 117, 99, 107>>,  \* reach truck
      <<109, 97, 116, 101, 114, 105, 97, 108, 32, 104, 97, 110, 100, 108, 105, 110, 103>>  \* material handling
    >>],
  \* Industrial
  [segment |-> "Industrial", keywords |-> <<
      <<105, 110, 100, 117, 115, 116, 114, 105, 97, 108>>,  \* industrial
      <<109, 97, 110, 117, 102, 97, 99, 116, 117, 114, 105, 110, 103>>,  \* manufacturing
      <<1079, 1072, 1074, 1086, 1076>>,  \* завод
      <<112, 114, 111, 100, 117, 99, 116, 105, 111, 110>>,  \* production
      <<1087, 1088, 1086, 1084, 1099, 1096, 1083, 1077, 1085>>  \* промышлен
    >>],
  \* Cold Chain
  [segment |-> "Cold Chain", keywords |-> <<
      <<99, 111, 108, 100, 32, 99, 104, 97, 105, 110>>,  \* cold chain
      <<1093, 1086, 1083, 1086, 1076, 1085, 1072, 1103, 32, 1094, 1077, 1087, 1100>>,  \* холодная цепь
      <<1090, 1077, 1084, 1087, 1077, 1088, 1072, 1090, 1091, 1088, 1085>>,  \* температурн
      <<1093, 1086, 1083, 1086, 1076, 1080, 1083, 1100, 1085>>  \* холодильн
    >>]
  >>

TIMING_RULES == <<
  \* 0–3 мес
  [timing |-> <<48, 8211, 51, 32, 1084, 1077, 1089>>, keywords |-> <<
      <<111, 112, 101, 110, 115>>,  \* opens
      <<111, 112, 101, 110, 105, 110, 103>>,  \* opening
      <<108, 97, 117, 110, 99, 104>>,  \* launch
      <<1079, 1072, 1087, 1091, 1089, 1082>>,  \* запуск
      <<1086, 1090, 1082, 1088, 1099, 1090, 1080, 1077>>,  \* открытие
      <<1086, 1090, 1082, 1088, 1099, 1083>>  \* открыл
    >>],
  \* 0–6 мес
  [timing |-> <<48, 8211, 54, 32, 1084, 1077, 1089>>, keywords |-> <<
      <<116, 101, 110, 100, 101, 114>>,  \* tender
      <<1090, 1077, 1085, 1076, 1077, 1088>>,  \* тендер
      <<114, 102, 112>>,  \* rfp
      <<1079, 1072, 1082, 1091, 1087>>  \* закуп
    >>],
  \* 3–12 мес
  [timing |-> <<51, 8211, 49, 50, 32, 1084, 1077, 1089>>, keywords |-> <<
      <<99, 111, 110, 115, 116, 114, 117, 99, 116, 105, 111, 110>>,  \* construction
      <<1089, 1090, 1088, 1086, 1080, 1090, 1077, 1083, 1100>>,  \* строитель
      <<112, 108, 97, 110, 110, 105, 110, 103>>,  \* planning
      <<1087, 1088, 1086, 1077, 1082, 1090>>  \* проект
    >>],
  \* 6–24 мес
  [timing |-> <<54, 8211, 50, 52, 32, 1084, 1077, 1089>>, keywords |-> <<
      <<97, 110, 110, 111, 117, 110, 99, 101>>,  \* announce
      <<97, 110, 110, 111, 117, 110, 99, 101, 100>>,  \* announced
      <<97, 110, 110, 111, 117, 110, 99, 101, 115>>,  \* announces
      <<97, 110, 110, 111, 117, 110, 99, 101, 100>>,  \* announced
      <<105, 110, 118, 101, 115, 116>>,  \* invest
      <<1080, 1085, 1074, 1077, 1089, 1090>>  \* инвест
    >>]
  >>

HH_STRONG_KEYWORDS == <<
  <<119, 97, 114, 101, 104, 111, 117, 115, 101>>,  \* warehouse
  <<105, 110, 118, 101, 110, 116, 111, 114, 121>>,  \* inventory
  <<1083, 1086, 1075, 1080, 1089, 1090>>,  \* логист
  <<108, 111, 103, 105, 115, 116, 105, 99, 115>>,  \* logistics
  <<115, 117, 112, 112, 108, 121, 32, 99, 104, 97, 105, 110>>,  \* supply chain
  <<1089, 1082, 1083, 1072, 1076>>,  \* склад
  <<102, 117, 108, 102, 105, 108, 108, 109, 101, 110, 116>>,  \* fulfillment
  <<102, 117, 108, 102, 105, 108, 109, 101, 110, 116>>,  \* fulfilment
  <<119, 109, 115>>,  \* wms
  <<100, 105, 115, 116, 114, 105, 98, 117, 116, 105, 111, 110, 32, 99, 101, 110, 116, 101, 114>>,  \* distribution center
  <<1088, 1072, 1089, 1087, 1088, 1077, 1076, 1077, 1083, 1080, 1090, 1077, 1083, 1100, 1085, 1099, 1081, 32, 1094, 1077, 1085, 1090, 1088>>,  \* распределительный центр
  <<1076, 1080, 1089, 1090, 1088, 1080, 1073, 1091, 1094, 1080, 1086, 1085, 1085, 1099, 1081, 32, 1094, 1077, 1085, 1090, 1088>>,  \* дистрибуционный центр
  <<1082, 1088, 1086, 1089, 1089, 45, 1076, 1086, 1082>>,  \* кросс-док
  <<99, 114, 111, 115, 115, 45, 100, 111, 99, 107>>,  \* cross-dock
  <<99, 111, 108, 100>>,  \* cold
  <<112, 105, 99, 107, 45, 112, 97, 99, 107>>,  \* pick-pack
  <<1087, 1080, 1082, 45, 1101, 1085, 1076, 45, 1087, 1072, 1082>>  \* пик-энд-пак
  >>


(***************************************************************************)
(* app/scoring.py: the keyword scorer                                      *)
(***************************************************************************)

normalize(text) == IF Len(text) > 0 THEN Lower(text) ELSE <<>>

\* The last entry of `table`, from index k on, one of whose keywords occurs
\* in text: a loop that does not return at its first match.
RECURSIVE LastMatch(_, _, _)
LastMatch(table, text, k) ==
  IF k > Len(table) THEN 0
  ELSE LET later == LastMatch(table, text, k + 1)
       IN IF later # 0 THEN later
          ELSE IF AnyKeyword(table[k].keywords, text) THEN k
          ELSE 0

\* The first entry of `table`, from index k on, one of whose keywords occurs
\* in text; 0 when there is none (the for loop with an early return).
RECURSIVE FirstMatch(_, _, _)
FirstMatch(table, text, k) ==
  IF k > Len(table) THEN 0
  ELSE IF AnyKeyword(table[k].keywords, text) THEN k
  ELSE FirstMatch(table, text, k + 1)

detect_segment(title, summary) ==
  LET text == normalize(TitleSummary(title, summary))
      k == FirstMatch(SEGMENT_KEYWORDS, text, 1)
  IN IF k = 0 THEN "Other" ELSE SEGMENT_KEYWORDS[k].segment

TIMING_DEFAULT == <<51, 8211, 49, 50, 32, 1084, 1077, 1089>> (* 3–12 мес *)

detect_timing(title, summary) ==
  LET text == normalize(TitleSummary(title, summary))
      k == FirstMatch(TIMING_RULES, text, 1)
  IN IF k = 0 THEN TIMING_DEFAULT ELSE TIMING_RULES[k].timing

\* The number of strong-signal keywords that occur in text.
StrongMatches(text) ==
  Cardinality({k \in 1..Len(STRONG_SIGNAL_KEYWORDS) :
                 Contains(STRONG_SIGNAL_KEYWORDS[k], text)})

HasRegion(text) == AnyKeyword(REGION_KEYWORDS, text)

HasVacancy(text) ==
  \/ Contains(<<118, 97, 99, 97, 110, 99>> (* vacanc *), text)
  \/ Contains(<<1074, 1072, 1082, 1072, 1085, 1089>> (* ваканс *), text)
  \/ Contains(<<106, 111, 98, 115>> (* jobs *), text)

HasTender(text) ==
  \/ Contains(<<116, 101, 110, 100, 101, 114>> (* tender *), text)
  \/ Contains(<<1090, 1077, 1085, 1076, 1077, 1088>> (* тендер *), text)
  \/ Contains(<<1079, 1072, 1082, 1091, 1087>> (* закуп *), text)

HasInvestment(text) ==
  \/ Contains(<<105, 110, 118, 101, 115, 116, 109, 101, 110, 116>> (* investment *), text)
  \/ Contains(<<1080, 1085, 1074, 1077, 1089, 1090>> (* инвест *), text)

StrongPointsUncapped(matches) == matches * 10

\* The capped contribution of the strong-signal keywords.
StrongPoints(matches) == IF matches > 0 THEN Min2(60, matches * 10) ELSE 0

\* The score before the zero floor and the final clamp.
RawDemand(text) ==
  StrongPoints(StrongMatches(text))
  + (IF HasRegion(text) THEN 10 ELSE 0)
  + (IF HasVacancy(text) THEN 10 ELSE 0)
  + (IF HasTender(text) THEN 10 ELSE 0)
  + (IF HasInvestment(text) THEN 10 ELSE 0)

FloorZeroMissing(score) == score

FloorZero(score) == IF score = 0 THEN 5 ELSE score

demand_score(title, summary) ==
  LET text == normalize(TitleSummary(title, summary))
  IN Min2(FloorZero(RawDemand(text)), 100)

(***************************************************************************)
(* app/hh_jobs.py: the job-board helpers                                   *)
(***************************************************************************)

strong_signal_bonus(text) ==
  LET normalized == Lower(text)
  IN (IF AnyKeyword(HH_STRONG_KEYWORDS, normalized) THEN 20 ELSE 0)
     + (IF Contains(<<119, 109, 115>> (* wms *), normalized) THEN 10 ELSE 0)
     + (IF Contains(<<99, 114, 111, 115, 115, 45, 100, 111, 99, 107>> (* cross-dock *), normalized) \/ Contains(<<1082, 1088, 1086, 1089, 1089, 45, 1076, 1086, 1082>> (* кросс-док *), normalized)
        THEN 10 ELSE 0)
     + (IF Contains(<<102, 117, 108, 102, 105, 108, 108, 109, 101, 110, 116>> (* fulfillment *), normalized) \/ Contains(<<1092, 1091, 1083, 1092, 1080, 1083, 1084, 1077, 1085, 1090>> (* фулфилмент *), normalized)
        THEN 10 ELSE 0)
     + (IF Contains(<<105, 110, 118, 101, 110, 116, 111, 114, 121>> (* inventory *), normalized) \/ Contains(<<1079, 1072, 1087, 1072, 1089>> (* запас *), normalized)
        THEN 10 ELSE 0)
     + (IF Contains(<<99, 111, 108, 100>> (* cold *), normalized) \/ Contains(<<1093, 1086, 1083, 1086, 1076>> (* холод *), normalized)
        THEN 10 ELSE 0)
     + (IF Contains(<<112, 105, 99, 107, 45, 112, 97, 99, 107>> (* pick-pack *), normalized) \/ Contains(<<1087, 1080, 1082, 45, 1101, 1085, 1076, 45, 1087, 1072, 1082>> (* пик-энд-пак *), normalized)
        THEN 10 ELSE 0)

\* " — ".join(part for part in parts if part)
RECURSIVE JoinNonEmpty(_, _)
JoinNonEmpty(parts, sep) ==
  IF parts = <<>> THEN <<>>
  ELSE LET rest == JoinNonEmpty(Tail(parts), sep)
       IN IF Head(parts) = <<>> THEN rest
          ELSE IF rest = <<>> THEN Head(parts)
          ELSE Head(parts) \o sep \o rest

build_title(name, company, city) ==
  JoinNonEmpty(<<name, company, city>>, <<32, 8212, 32>> (*  —  *))

(***************************************************************************)
(* State                                                                   *)
(***************************************************************************)

VARIABLES
  \* app/storage.py: the rows of the tables `seen` and `leads`
  seen, leads,
  \* datetime.utcnow(), in hours
  clock,
  \* the last Storage call made directly (not by a scan) and what it returned
  st_last,
  \* the keyword scorer's inputs and results
  sc_title, sc_summary, sc_used, sc_phase, sc_score, sc_segment, sc_timing,
  \* the tenant matcher's inputs and result
  tn_profile, tn_listing, tn_phase, tn_result,
  \* app/config.py: the Settings the process was started with
  settings,
  \* app/storage.py: scan_state.last_run of "hh_jobs", in hours (None: no row)
  scan_state,
  \* app/hh_jobs.py: what lru_cache holds for get_hh_area_ids (None: nothing)
  area_cache,
  \* the notification sink: the leads bot.send_message delivered, in order
  sink,
  \* app/main.py: the locals of each call of run_radar_once and where it stands
  run,
  \* the number of calls of run_radar_once so far
  started,
  \* app/storage.py: the rows of the table `settings`, by chat_id
  period,
  \* the last period call or chat command and what it returned
  chat_last,
  \* guess_company's input and result
  gc_title, gc_phase, gc_result,
  \* the lock files (who holds the flock on each) and the process instances
  locks, inst,
  \* app/yandex_xml.py: one call of fetch_yandex_xml_results made by
  \* scan_yandex_xml, query by query, and what the scan made of it
  yx,
  \* app/main.py: the fetches of one call of run_radar_once: which is
  \* awaited and which worker threads are running
  ff,
  \* app/main.py: one call of handle_tenant_matches: what the store held,
  \* the ranking it made and the messages it sent
  tm,
  \* app/main.py: tenant_flows of build_dispatcher, by chat id (None: no
  \* questionnaire in progress)
  tenant_flows,
  \* the gateway's tenant profiles, by chat id (None: no row)
  tenant_profiles,
  \* the last message the dispatcher took, the handler it went to and what
  \* became of it; the number of messages taken so far
  tf_last, handled

storageVars == <<seen, leads, clock, st_last>>
scoreVars == <<sc_title, sc_summary, sc_used, sc_phase, sc_score, sc_segment, sc_timing>>
tenantVars == <<tn_profile, tn_listing, tn_phase, tn_result>>

radarVars == <<settings, scan_state, area_cache, sink, run, started>>

chatVars == <<period, chat_last>>
companyVars == <<gc_title, gc_phase, gc_result>>
lockVars == <<locks, inst>>
webVars == <<yx>>
fetchVars == <<ff>>
matchVars == <<tm>>
flowVars == <<tenant_flows, tenant_profiles, tf_last, handled>>

vars == <<storageVars, scoreVars, tenantVars, radarVars, chatVars, companyVars, lockVars, webVars, fetchVars, matchVars, flowVars>>

(***************************************************************************)
(* app/storage.py: the tables `seen` (url PRIMARY KEY, first_seen) and      *)
(* `leads` (id AUTOINCREMENT, url UNIQUE, ..., created_at)                  *)
(***************************************************************************)

\* The SQL NULL of a lead dict without a "url" key: UNIQUE never rejects it.
NULL == "<NULL>"

\* is_seen answering "no" for every URL.
is_seen_never(rows, url) == FALSE

\* Storage.is_seen on the rows of `seen`
is_seen(rows, url) == \E s \in rows : s.url = url

\* A mark_seen that writes nothing.
mark_seen_nothing(rows, url, now) == rows

\* Storage.mark_seen: INSERT OR IGNORE INTO seen (url, first_seen)
mark_seen(rows, url, now) ==
  IF \E s \in rows : s.url = url
    THEN rows
  ELSE rows \cup {[url |-> url, first_seen |-> now]}

\* The row INSERT writes for a lead dict: the next id and created_at = now.
LeadRow(rows, lead, now) ==
  [id |-> Len(rows) + 1, url |-> lead.url, item |-> lead.item, source |-> lead.source,
   demand_score |-> lead.demand_score, segment |-> lead.segment,
   timing |-> lead.timing, created_at |-> now]

\* INSERT without the UNIQUE constraint on url: every call adds a row.
save_lead_no_unique(rows, lead, now) ==
  [leads |-> Append(rows, LeadRow(rows, lead, now)), saved |-> TRUE]

\* Storage.save_lead: INSERT OR IGNORE INTO leads; returns cursor.rowcount > 0.
save_lead(rows, lead, now) ==
  IF lead.url # NULL /\ \E i \in 1..Len(rows) : rows[i].url = lead.url
    THEN [leads |-> rows, saved |-> FALSE]
  ELSE [leads |-> Append(rows, LeadRow(rows, lead, now)), saved |-> TRUE]

\* Storage.count_leads, Storage.count_seen
count_leads(rows) == Len(rows)
count_seen(rows) == Cardinality(rows)

(***************************************************************************)
(* The storage gateway called directly, in any order                       *)
(***************************************************************************)

\* The most Storage calls of one behaviour, and the last hour of the clock.
MaxCalls == 3
MaxClock == 1

StorageUrls == {"u1", "u2", "", NULL}

\* The lead dicts handed to save_lead.
StorageLeads ==
  [url : StorageUrls, item : {<<"rss", 1>>}, source : {"feed"},
   demand_score : {10, 70}, segment : {"3PL"}, timing : {TIMING_DEFAULT}]

NoCall == [n |-> 0, op |-> "none", url |-> "", lead |-> <<>>, result |-> FALSE]

StorageInit ==
  /\ seen = {}
  /\ leads = <<>>
  /\ clock = 0
  /\ st_last = NoCall

StSaveLead ==
  /\ st_last.n < MaxCalls
  /\ \E lead \in StorageLeads :
       LET r == save_lead(leads, lead, clock)
       IN /\ leads' = r.leads
          /\ st_last' = [n |-> st_last.n + 1, op |-> "save_lead", url |-> lead.url,
                         lead |-> <<lead>>, result |-> r.saved]
  /\ UNCHANGED <<seen, clock>>
  /\ UNCHANGED <<scoreVars, tenantVars, radarVars, chatVars, companyVars, lockVars, webVars, fetchVars, matchVars, flowVars>>

StMarkSeen ==
  /\ st_last.n < MaxCalls
  /\ \E url \in StorageUrls \ {NULL} :
       /\ seen' = mark_seen(seen, url, clock)
       /\ st_last' = [n |-> st_last.n + 1, op |-> "mark_seen", url |-> url,
                      lead |-> <<>>, result |-> FALSE]
  /\ UNCHANGED <<leads, clock>>
  /\ UNCHANGED <<scoreVars, tenantVars, radarVars, chatVars, companyVars, lockVars, webVars, fetchVars, matchVars, flowVars>>

StIsSeen ==
  /\ st_last.n < MaxCalls
  /\ \E url \in StorageUrls \ {NULL} :
       st_last' = [n |-> st_last.n + 1, op |-> "is_seen", url |-> url,
                   lead |-> <<>>, result |-> is_seen(seen, url)]
  /\ UNCHANGED <<seen, leads, clock>>
  /\ UNCHANGED <<scoreVars, tenantVars, radarVars, chatVars, companyVars, lockVars, webVars, fetchVars, matchVars, flowVars>>

\* An hour passes.
Tick ==
  /\ clock < MaxClock
  /\ clock' = clock + 1
  /\ UNCHANGED <<seen, leads, st_last>>
  /\ UNCHANGED <<scoreVars, tenantVars, radarVars, chatVars, companyVars, lockVars, webVars, fetchVars, matchVars, flowVars>>

(***************************************************************************)
(* app/main.py: the relevance filter and the leads a scan builds           *)
(***************************************************************************)

RELEVANCE_REGION_KEYWORDS == <<
  <<1082, 1072, 1079, 1072, 1093, 1089, 1090, 1072, 1085>> (* казахстан *), <<97, 108, 109, 97, 116, 121>> (* almaty *), <<1072, 1083, 1084, 1072, 1090, 1099>> (* алматы *), <<97, 115, 116, 97, 110, 97>> (* astana *), <<1072, 1089, 1090, 1072, 1085, 1072>> (* астана *), <<107, 97, 122, 97, 107, 104, 115, 116, 97, 110>> (* kazakhstan *) >>

ALLOWED_SEGMENTS ==
  {"E-COM", "3PL", "FMCG", "Distribution", "Warehouse Real Estate",
   "Auto/Spec Tech", "Cold Chain", "Industrial"}

\* The filter without its regional test: the segment alone decides.
is_relevant_lead_no_region(title, summary) ==
  detect_segment(title, summary) \in ALLOWED_SEGMENTS

is_relevant_lead(title, summary) ==
  LET text == Lower(TitleSummary(title, summary))
  IN IF ~AnyKeyword(RELEVANCE_REGION_KEYWORDS, text) THEN FALSE
     ELSE detect_segment(title, summary) \in ALLOWED_SEGMENTS

\* The hot threshold of `lead["demand_score"] >= 60`.
HOT_THRESHOLD == 60

\* The floor of a job-board lead's raw score, `max(70, ...)`.
HH_BASE_SCORE == 70

TIMING_HH == <<48, 8211, 51, 32, 1084, 1077, 1089>> (* 0–3 мес *)

\* str.strip() of spaces
RECURSIVE StripLeft(_)
StripLeft(text) ==
  IF text # <<>> /\ Head(text) = 32 THEN StripLeft(Tail(text)) ELSE text

RECURSIVE StripRight(_)
StripRight(text) ==
  IF text # <<>> /\ text[Len(text)] = 32
    THEN StripRight(SubSeq(text, 1, Len(text) - 1))
  ELSE text

Strip(text) == StripLeft(StripRight(text))

\* sep.join(parts)
RECURSIVE Join(_, _)
Join(parts, sep) ==
  IF parts = <<>> THEN <<>>
  ELSE IF Len(parts) = 1 THEN Head(parts)
  ELSE Head(parts) \o sep \o Join(Tail(parts), sep)

\* The parts of a sequence that are not empty, in order.
RECURSIVE NonEmpty(_)
NonEmpty(parts) ==
  IF parts = <<>> THEN <<>>
  ELSE IF Head(parts) = <<>> THEN NonEmpty(Tail(parts))
  ELSE <<Head(parts)>> \o NonEmpty(Tail(parts))

\* [part.strip() for part in parts if part]
RECURSIVE StripEach(_)
StripEach(parts) ==
  IF parts = <<>> THEN <<>> ELSE <<Strip(Head(parts))>> \o StripEach(Tail(parts))

\* vacancy_summary(vacancy, detail); detail = None is has_detail = FALSE.
vacancy_summary(vacancy, has_detail) ==
  LET skills == IF has_detail THEN JoinNonEmpty(vacancy.key_skills, <<44, 32>> (* ,  *)) ELSE <<>>
  IN Join(StripEach(NonEmpty(<<vacancy.requirement, vacancy.responsibility, skills>>)),
          <<32, 124, 32>> (*  |  *))

\* The raw keyword score of a vacancy with the floor left out.
base_score_no_floor(title, summary) == demand_score(title, summary)

\* base_score = max(70, demand_score(title, summary))
base_score(title, summary) == Max2(HH_BASE_SCORE, demand_score(title, summary))

\* score = min(100, base_score + strong_signal_bonus(f"{title} {summary}"))
hh_score(title, summary) ==
  Min2(100, base_score(title, summary) + strong_signal_bonus(TitleSummary(title, summary)))

(***************************************************************************)
(* What the sources return: the items of feeds and of the web search, and  *)
(* the vacancies of the job board                                          *)
(***************************************************************************)

Items == <<
  \* 1: relevant (3PL), demand score 70
  [url |-> "u1", title |-> <<1051, 1086, 1075, 1080, 1089, 1090, 1080, 1095, 1077, 1089, 1082, 1080, 1081, 32, 1086, 1087, 1077, 1088, 1072, 1090, 1086, 1088, 32, 1086, 1090, 1082, 1088, 1099, 1083, 32, 1089, 1082, 1083, 1072, 1076, 32, 1074, 32, 1040, 1083, 1084, 1072, 1090, 1099>> (* Логистический оператор открыл склад в Алматы *),
   summary |-> <<1047, 1072, 1087, 1091, 1089, 1082, 44, 32, 1080, 1085, 1074, 1077, 1089, 1090, 1080, 1094, 1080, 1080, 44, 32, 1090, 1077, 1085, 1076, 1077, 1088>> (* Запуск, инвестиции, тендер *)],
  \* 2: relevant (FMCG), demand score 10
  [url |-> "u2", title |-> <<1056, 1080, 1090, 1077, 1081, 1083, 32, 1074, 32, 1050, 1072, 1079, 1072, 1093, 1089, 1090, 1072, 1085, 1077>> (* Ритейл в Казахстане *), summary |-> <<>>],
  \* 3: no regional keyword
  [url |-> "u3", title |-> <<87, 97, 114, 101, 104, 111, 117, 115, 101, 32, 111, 112, 101, 110, 105, 110, 103, 32, 105, 110, 32, 66, 101, 114, 108, 105, 110>> (* Warehouse opening in Berlin *), summary |-> <<108, 111, 103, 105, 115, 116, 105, 99, 115, 32, 104, 117, 98>> (* logistics hub *)],
  \* 4: a regional keyword, segment Other
  [url |-> "u4", title |-> <<1054, 1090, 1082, 1088, 1099, 1090, 1080, 1077, 32, 1085, 1086, 1074, 1086, 1075, 1086, 32, 1088, 1072, 1089, 1087, 1088, 1077, 1076, 1077, 1083, 1080, 1090, 1077, 1083, 1100, 1085, 1086, 1075, 1086, 32, 1094, 1077, 1085, 1090, 1088, 1072, 32, 1074, 32, 1040, 1083, 1084, 1072, 1090, 1099>> (* Открытие нового распределительного центра в Алматы *),
   summary |-> <<>>],
  \* 5: relevant (FMCG), demand score 60
  [url |-> "u5", title |-> <<1056, 1080, 1090, 1077, 1081, 1083, 32, 40, 1040, 1089, 1090, 1072, 1085, 1072, 41, 58, 32, 1090, 1077, 1085, 1076, 1077, 1088, 32, 1085, 1072, 32, 1089, 1090, 1088, 1086, 1080, 1090, 1077, 1083, 1100, 1089, 1090, 1074, 1086>> (* Ритейл (Астана): тендер на строительство *),
   summary |-> <<1080, 1085, 1074, 1077, 1089, 1090, 1080, 1094, 1080, 1080>> (* инвестиции *)],
  \* 6: the URL of item 3 under a relevant text (Auto/Spec Tech)
  [url |-> "u3", title |-> <<1055, 1086, 1075, 1088, 1091, 1079, 1095, 1080, 1082, 1080, 32, 1076, 1083, 1103, 32, 1089, 1082, 1083, 1072, 1076, 1072, 58, 32, 1040, 1089, 1090, 1072, 1085, 1072>> (* Погрузчики для склада: Астана *), summary |-> <<>>],
  \* 7: "central asia" only, which the scorer counts as a region and the filter does not
  [url |-> "u7", title |-> <<77, 97, 114, 107, 101, 116, 112, 108, 97, 99, 101, 32, 108, 97, 117, 110, 99, 104, 32, 105, 110, 32, 67, 101, 110, 116, 114, 97, 108, 32, 65, 115, 105, 97>> (* Marketplace launch in Central Asia *),
   summary |-> <<105, 110, 118, 101, 115, 116, 109, 101, 110, 116, 44, 32, 116, 101, 110, 100, 101, 114>> (* investment, tender *)]
  >>

ItemIds == 1..Len(Items)

\* What one feed fetch returns when the feed parses.
FeedResults == { <<1, 3>>, <<2, 5, 6>>, <<4, 7, 1>> }

\* What the web search returns when it succeeds.
YandexResults == { <<>>, <<3, 2>>, <<6, 5>> }

Vacancies == <<
  \* 1: minimal keyword signal
  [url |-> "h1", id |-> "1", name |-> <<1050, 1083, 1072, 1076, 1086, 1074, 1097, 1080, 1082>> (* Кладовщик *), employer |-> <<84, 101, 99, 104, 32, 76, 116, 100>> (* Tech Ltd *),
   area |-> <<1040, 1083, 1084, 1072, 1090, 1099>> (* Алматы *), requirement |-> <<>>, responsibility |-> <<>>,
   key_skills |-> << <<1091, 1095, 1077, 1090>> (* учет *) >>],
  \* 2: the bonus keywords are in the detail's key skills
  [url |-> "h2", id |-> "2", name |-> <<87, 97, 114, 101, 104, 111, 117, 115, 101, 32, 109, 97, 110, 97, 103, 101, 114>> (* Warehouse manager *), employer |-> <<69, 76, 80>> (* ELP *),
   area |-> <<65, 108, 109, 97, 116, 121>> (* Almaty *), requirement |-> <<69, 110, 103, 108, 105, 115, 104, 32>> (* English  *), responsibility |-> <<>>,
   key_skills |-> << <<87, 77, 83>> (* WMS *), <<105, 110, 118, 101, 110, 116, 111, 114, 121>> (* inventory *) >>],
  \* 3: no URL
  [url |-> "", id |-> "3", name |-> <<1042, 1086, 1076, 1080, 1090, 1077, 1083, 1100>> (* Водитель *), employer |-> <<>>,
   area |-> <<>>, requirement |-> <<>>, responsibility |-> <<>>, key_skills |-> <<>>],
  \* 4: a raw keyword score above 70 and no bonus
  [url |-> "h4", id |-> "4", name |-> <<1042, 1072, 1082, 1072, 1085, 1089, 1080, 1103, 58, 32, 1084, 1077, 1085, 1077, 1076, 1078, 1077, 1088, 32, 1087, 1086, 32, 1090, 1077, 1085, 1076, 1077, 1088, 1072, 1084, 32, 1080, 32, 1079, 1072, 1082, 1091, 1087, 1082, 1072, 1084>> (* Вакансия: менеджер по тендерам и закупкам *),
   employer |-> <<>>, area |-> <<>>, requirement |-> <<1080, 1085, 1074, 1077, 1089, 1090, 1080, 1094, 1080, 1080>> (* инвестиции *),
   responsibility |-> <<32, 1079, 1072, 1087, 1091, 1089, 1082>> (*  запуск *), key_skills |-> <<>>]
  >>

VacancyIds == 1..Len(Vacancies)

\* What one job-board search returns when it succeeds: items and `found`.
HhResults ==
  { [items |-> <<>>, found |-> 0],
    [items |-> <<1, 2>>, found |-> 2],
    \* a payload without "found": found_total keeps its 0
    [items |-> <<3, 4, 1, 2>>, found |-> 0] }

\* lead = {**item, "demand_score": ..., "segment": ..., "timing": ...}
ItemLead(i, source) ==
  [url |-> Items[i].url, item |-> [kind |-> "item", id |-> i, detail |-> FALSE], source |-> source,
   demand_score |-> demand_score(Items[i].title, Items[i].summary),
   segment |-> detect_segment(Items[i].title, Items[i].summary),
   timing |-> detect_timing(Items[i].title, Items[i].summary)]

vacancy_title(v) ==
  build_title(Vacancies[v].name, Vacancies[v].employer, Vacancies[v].area)

\* The lead scan_hh_jobs builds for vacancy v, with or without its detail.
VacancyLead(v, has_detail) ==
  LET title == vacancy_title(v)
      summary == vacancy_summary(Vacancies[v], has_detail)
  IN [url |-> Vacancies[v].url, item |-> [kind |-> "vacancy", id |-> v, detail |-> has_detail],
      source |-> "HeadHunter",
      demand_score |-> hh_score(title, summary),
      segment |-> detect_segment(title, summary),
      timing |-> TIMING_HH]

\* The filter and the leads of the catalogue, computed once.
Relevant == [i \in ItemIds |-> is_relevant_lead(Items[i].title, Items[i].summary)]
RssLeads == [i \in ItemIds |-> ItemLead(i, "rss")]
YandexLeads == [i \in ItemIds |-> ItemLead(i, "YandexXML")]
HhLeads == [v \in VacancyIds |-> [d \in BOOLEAN |-> VacancyLead(v, d)]]

(***************************************************************************)
(* app/main.py: run_radar_once, its settings and its locals                *)
(***************************************************************************)

\* The most calls of run_radar_once in one behaviour.
MaxRuns == 2

\* The feeds of get_all_feed_urls(), by index (the code has 58).
MaxFeeds == 2

\* The queries of iter_queries(), by index (the code has 29).
MaxQueries == 1

\* The calls of run_radar_once that can be alive at once: the scheduler's
\* job and a /scan_now handler.
Slots == {1, 2}

\* The Settings a process can be started with (load_settings reads any
\* integer for the two caps; hh_areas is never empty).
SettingsSpace ==
  { [max_items_per_run |-> 3, max_send_per_run |-> 1, jobs_scan_enabled |-> FALSE,
     jobs_scan_interval_hours |-> 6, hh_areas |-> <<40, 160>>,
     yandex_xml_enabled |-> FALSE, yandex_serpapi_enabled |-> FALSE],
    [max_items_per_run |-> 4, max_send_per_run |-> 2, jobs_scan_enabled |-> FALSE,
     jobs_scan_interval_hours |-> 6, hh_areas |-> <<40, 160>>,
     yandex_xml_enabled |-> TRUE, yandex_serpapi_enabled |-> TRUE],
    [max_items_per_run |-> 3, max_send_per_run |-> 1, jobs_scan_enabled |-> TRUE,
     jobs_scan_interval_hours |-> 1, hh_areas |-> <<40>>,
     yandex_xml_enabled |-> FALSE, yandex_serpapi_enabled |-> TRUE],
    [max_items_per_run |-> 2, max_send_per_run |-> 0, jobs_scan_enabled |-> TRUE,
     jobs_scan_interval_hours |-> 0, hh_areas |-> <<40, 160>>,
     yandex_xml_enabled |-> FALSE, yandex_serpapi_enabled |-> FALSE],
    [max_items_per_run |-> 0, max_send_per_run |-> 1, jobs_scan_enabled |-> TRUE,
     jobs_scan_interval_hours |-> 6, hh_areas |-> <<40, 160>>,
     yandex_xml_enabled |-> TRUE, yandex_serpapi_enabled |-> FALSE],
    [max_items_per_run |-> -1, max_send_per_run |-> -1, jobs_scan_enabled |-> TRUE,
     jobs_scan_interval_hours |-> 6, hh_areas |-> <<40, 160>>,
     yandex_xml_enabled |-> TRUE, yandex_serpapi_enabled |-> FALSE],
    [max_items_per_run |-> 2, max_send_per_run |-> -1, jobs_scan_enabled |-> FALSE,
     jobs_scan_interval_hours |-> 6, hh_areas |-> <<40, 160>>,
     yandex_xml_enabled |-> FALSE, yandex_serpapi_enabled |-> FALSE] }

\* What get_hh_area_ids returns when the area tree loads: no Kazakhstan
\* node, or Kazakhstan with Almaty below it.
AreaIdResults ==
  { [kz |-> None, almaty |-> <<>>],
    [kz |-> Some(40), almaty |-> <<160>>] }

NoLead == <<>>

\* The locals of a call that has not started.
IdleRun ==
  [pc |-> "idle", nr |-> 0, now |-> 0,
   collected |-> 0, sent |-> 0, new_leads |-> 0,
   rss_items |-> 0, rss_seen |-> 0, feeds_ok |-> 0, feeds_failed |-> 0,
   yandex_items |-> 0, yandex_new |-> 0, yandex_seen |-> 0,
   yandex_source |-> "disabled",
   hh_items |-> 0, hh_new |-> 0, hh_seen |-> 0,
   hh_status_code |-> 0, hh_found |-> 0, hh_links |-> <<>>,
   hh_error |-> NULL, hh_disabled |-> FALSE, hh_skipped_reason |-> NULL,
   errors |-> <<>>, rss_errors |-> <<>>,
   \* loop positions: the feed index, the items still to visit, the query
   \* index, the areas still to try, the vacancies still to visit
   index |-> 0, items |-> <<>>, remaining |-> 0,
   query |-> 0, areas |-> <<>>, area_candidates |-> <<>>, kz_id |-> None,
   vacancies |-> <<>>, found_total |-> 0, rest |-> <<>>,
   \* the loop variables `item` / `result` and `vacancy` (0: none yet)
   item |-> 0, vacancy |-> 0,
   \* the lead whose notification is being awaited
   lead |-> NoLead,
   \* the outcome of each feed fetch so far, and the calls the last item made
   fetches |-> <<>>, calls |-> <<>>]

\* run_radar_once, lines 269-291: the locals at entry.
EntryRun(nr, now) ==
  [IdleRun EXCEPT !.pc = "rss_fetch", !.nr = nr, !.now = now, !.index = 1,
                  !.hh_disabled = ~settings.jobs_scan_enabled]

\* A call that is not running: not started, returned, or ended by an exception.
Terminal == {"idle", "done", "raised"}

\* The places where a call waits in an await.
AwaitPcs ==
  {"rss_fetch", "rss_send", "yx_fetch", "serp_fetch",
   "hh_area", "hh_fallback", "hh_detail", "hh_send"}

\* The event loop runs a call r: no other call is between two awaits.
Turn(r) == \A q \in Slots \ {r} : run[q].pc \in Terminal \cup AwaitPcs

\* No call is running.
Quiet == \A q \in Slots : run[q].pc \in Terminal

\* The caps' tests `collected >= settings.max_items_per_run`,
\* `yandex_items >= remaining` and `hh_items >= remaining`, with the late
\* variant that lets one more item through.
CapReachedLate(count, cap) == count > cap

CapReached(count, cap) == count >= cap

\* The guards of a notification without the send cap, and without the
\* threshold.
ShouldNotifyUncapped(saved, lead, sent) ==
  saved /\ lead.demand_score >= HOT_THRESHOLD

ShouldNotifyAnyScore(saved, lead, sent) ==
  saved /\ sent < settings.max_send_per_run

\* `if saved:` and `if lead["demand_score"] >= 60 and sent < max_send_per_run:`
ShouldNotify(saved, lead, sent) ==
  /\ saved
  /\ lead.demand_score >= HOT_THRESHOLD
  /\ sent < settings.max_send_per_run

\* The dict run_radar_once returns, lines 611-632.
Report(rec) ==
  [collected |-> rec.collected, new_leads |-> rec.new_leads, sent |-> rec.sent,
   feeds_total |-> MaxFeeds, feeds_ok |-> rec.feeds_ok,
   feeds_failed |-> rec.feeds_failed, rss_items |-> rec.rss_items,
   yandex_items |-> rec.yandex_items, yandex_source |-> rec.yandex_source,
   hh_items |-> rec.hh_items,
   seen |-> rec.rss_seen + rec.yandex_seen + rec.hh_seen,
   hh_status_code |-> rec.hh_status_code, hh_found |-> rec.hh_found,
   hh_links |-> rec.hh_links, hh_error |-> rec.hh_error,
   hh_disabled |-> rec.hh_disabled, hh_skipped_reason |-> rec.hh_skipped_reason,
   errors |-> rec.errors, rss_errors |-> rec.rss_errors]

\* The defaults of load_settings.
DefaultSettings ==
  [max_items_per_run |-> 50, max_send_per_run |-> 10, jobs_scan_enabled |-> TRUE,
   jobs_scan_interval_hours |-> 6, hh_areas |-> <<40, 160>>,
   yandex_xml_enabled |-> FALSE, yandex_serpapi_enabled |-> FALSE]

\* A process started with settings s, before its first scan.
RadarStart(s) ==
  /\ settings = s
  /\ scan_state = None
  /\ area_cache = None
  /\ sink = <<>>
  /\ run = [r \in Slots |-> IdleRun]
  /\ started = 0

RadarIdle == RadarStart(DefaultSettings)

\* The database file a process opens: a new one, or the one a process left
\* that stopped between save_lead and mark_seen (each commits on its own),
\* with the lead of item 1 stored and its URL not marked.
Databases ==
  { [seen |-> {}, leads |-> <<>>],
    [seen |-> {}, leads |-> save_lead(<<>>, RssLeads[1], 0).leads] }

DatabaseOpened(db) ==
  /\ seen = db.seen
  /\ leads = db.leads
  /\ clock = 0
  /\ st_last = NoCall

\* A call of run_radar_once begins (the scheduler's job or /scan_now); in
\* the lowest free slot, and only while no other call is running.
StartRun(r) ==
  /\ started < MaxRuns
  /\ Quiet
  /\ \A q \in Slots : q < r => run[q].pc \notin Terminal
  /\ run' = [run EXCEPT ![r] = EntryRun(started + 1, clock)]
  /\ started' = started + 1
  /\ UNCHANGED <<settings, scan_state, area_cache, sink>>
  /\ UNCHANGED <<storageVars, scoreVars, tenantVars, chatVars, companyVars, lockVars, webVars, fetchVars, matchVars, flowVars>>

\* An hour passes between two scans.
Wait ==
  /\ Quiet
  /\ started > 0
  /\ clock < MaxClock
  /\ clock' = clock + 1
  /\ UNCHANGED <<seen, leads, st_last>>
  /\ UNCHANGED <<scoreVars, tenantVars, radarVars, chatVars, companyVars, lockVars, webVars, fetchVars, matchVars, flowVars>>

(***************************************************************************)
(* run_radar_once, lines 532-585: the feeds                                *)
(***************************************************************************)

\* What stays as it is in a step of a scan.
ScanFrame ==
  UNCHANGED <<settings, started, clock, st_last, scoreVars, tenantVars,
              chatVars, companyVars, lockVars, webVars, fetchVars, matchVars, flowVars>>

\* The for loop over feeds moves on: the next feed, or past the last one.
NextFeed(rec) ==
  IF rec.index + 1 > MaxFeeds
    THEN [rec EXCEPT !.pc = "web", !.index = rec.index + 1, !.items = <<>>]
  ELSE [rec EXCEPT !.pc = "rss_fetch", !.index = rec.index + 1, !.items = <<>>]

\* An except clause that swallows the failure of a fetch.
FeedFailedSilently(rec) ==
  [rec EXCEPT !.fetches = Append(@, "failed")]

\* The except clause, lines 541-545: the failure is counted and a
\* diagnostic naming the feed is recorded.
FeedFailed(rec) ==
  [rec EXCEPT !.feeds_failed = @ + 1,
              !.rss_errors = Append(@, rec.index),
              !.fetches = Append(@, "failed")]

\* The fetch of the current feed raises (transport error, HTTP status,
\* timeout): the except clause handles it and the loop continues.
RssFetchFail(r) ==
  /\ Turn(r)
  /\ run[r].pc = "rss_fetch"
  /\ run' = [run EXCEPT ![r] = NextFeed(FeedFailed(run[r]))]
  /\ UNCHANGED <<seen, leads, sink, scan_state, area_cache>>
  /\ ScanFrame

\* The fetch of the current feed returns its items.
RssFetchOk(r) ==
  /\ Turn(r)
  /\ run[r].pc = "rss_fetch"
  /\ \E items \in FeedResults :
       run' = [run EXCEPT ![r] =
         [run[r] EXCEPT !.pc = "rss_item", !.feeds_ok = @ + 1,
                        !.rss_items = @ + Len(items), !.items = items,
                        !.fetches = Append(@, "ok")]]
  /\ UNCHANGED <<seen, leads, sink, scan_state, area_cache>>
  /\ ScanFrame

\* The feed's content does not parse: feedparser raises nothing and gives no
\* entries, fetch_rss_items returns [] and the feed counts as fetched.
RssFetchMalformed(r) ==
  /\ Turn(r)
  /\ run[r].pc = "rss_fetch"
  /\ run' = [run EXCEPT ![r] =
       [run[r] EXCEPT !.pc = "rss_item", !.feeds_ok = @ + 1, !.items = <<>>,
                      !.fetches = Append(@, "parse error")]]
  /\ UNCHANGED <<seen, leads, sink, scan_state, area_cache>>
  /\ ScanFrame

\* The inner loop ends, by exhaustion or by the cap's break; the check after
\* it (line 584) ends the outer loop as well once the cap is reached.
RssFeedEnd(r) ==
  /\ Turn(r)
  /\ run[r].pc = "rss_item"
  /\ \/ run[r].items = <<>>
     \/ CapReached(run[r].collected, settings.max_items_per_run)
  /\ run' = [run EXCEPT ![r] =
       IF CapReached(run[r].collected, settings.max_items_per_run)
         THEN [run[r] EXCEPT !.pc = "web", !.items = <<>>]
       ELSE NextFeed(run[r])]
  /\ UNCHANGED <<seen, leads, sink, scan_state, area_cache>>
  /\ ScanFrame

\* One pass of the inner loop, lines 547-583, up to the await of send_message.
RssItem(r) ==
  /\ Turn(r)
  /\ run[r].pc = "rss_item"
  /\ run[r].items # <<>>
  /\ ~CapReached(run[r].collected, settings.max_items_per_run)
  /\ LET i == Head(run[r].items)
         url == Items[i].url
         rec == [run[r] EXCEPT !.collected = @ + 1, !.items = Tail(@), !.item = i]
     IN IF url = ""
          THEN /\ run' = [run EXCEPT ![r] = [rec EXCEPT !.calls = <<>>]]
               /\ UNCHANGED <<seen, leads>>
        ELSE IF is_seen(seen, url)
          THEN /\ run' = [run EXCEPT ![r] =
                    [rec EXCEPT !.rss_seen = @ + 1, !.calls = <<"is_seen">>]]
               /\ UNCHANGED <<seen, leads>>
        ELSE IF ~Relevant[i]
          THEN /\ seen' = mark_seen(seen, url, clock)
               /\ run' = [run EXCEPT ![r] =
                    [rec EXCEPT !.rss_seen = @ + 1,
                                !.calls = <<"is_seen", "is_relevant_lead", "mark_seen">>]]
               /\ UNCHANGED leads
        ELSE LET lead == RssLeads[i]
                 saved == save_lead(leads, lead, clock)
                 notify == ShouldNotify(saved.saved, lead, rec.sent)
             IN /\ leads' = saved.leads
                /\ seen' = mark_seen(seen, url, clock)
                /\ run' = [run EXCEPT ![r] =
                     [rec EXCEPT !.new_leads = IF saved.saved THEN @ + 1 ELSE @,
                                 !.pc = IF notify THEN "rss_send" ELSE @,
                                 !.lead = IF notify THEN <<lead>> ELSE @,
                                 !.calls = <<"is_seen", "is_relevant_lead",
                                             "save_lead", "mark_seen">>]]
  /\ UNCHANGED <<sink, scan_state, area_cache>>
  /\ ScanFrame

\* bot.send_message returns: the lead is in the sink and sent counts it.
RssSendOk(r) ==
  /\ Turn(r)
  /\ run[r].pc = "rss_send"
  /\ sink' = Append(sink, [nr |-> run[r].nr, lead |-> run[r].lead[1]])
  /\ run' = [run EXCEPT ![r] =
       [run[r] EXCEPT !.pc = "rss_item", !.sent = @ + 1, !.lead = NoLead]]
  /\ UNCHANGED <<seen, leads, scan_state, area_cache>>
  /\ ScanFrame

\* bot.send_message raises: nothing catches it and the call ends.
RssSendFail(r) ==
  /\ Turn(r)
  /\ run[r].pc = "rss_send"
  /\ run' = [run EXCEPT ![r] = [run[r] EXCEPT !.pc = "raised", !.lead = NoLead]]
  /\ UNCHANGED <<seen, leads, sink, scan_state, area_cache>>
  /\ ScanFrame

(***************************************************************************)
(* run_radar_once, lines 442-530 and 587-599: the web search               *)
(***************************************************************************)

\* The selection without the test of `remaining > 0`.
SelectWebSearchNoBudget(r) ==
  /\ Turn(r)
  /\ run[r].pc = "web"
  /\ LET remaining == settings.max_items_per_run - run[r].collected
         rec == [run[r] EXCEPT !.remaining = remaining]
     IN run' = [run EXCEPT ![r] =
          IF settings.yandex_xml_enabled
            THEN [rec EXCEPT !.pc = "yx_fetch", !.yandex_source = "YandexXML"]
          ELSE IF settings.yandex_serpapi_enabled
            THEN [rec EXCEPT !.pc = "serp_fetch", !.yandex_source = "YandexSerpAPI"]
          ELSE [rec EXCEPT !.pc = "jobs"]]
  /\ UNCHANGED <<seen, leads, sink, scan_state, area_cache>>
  /\ ScanFrame

\* Lines 587-599: which web search runs, if the cap leaves room for one.
SelectWebSearch(r) ==
  /\ Turn(r)
  /\ run[r].pc = "web"
  /\ LET remaining == settings.max_items_per_run - run[r].collected
         rec == [run[r] EXCEPT !.remaining = remaining]
     IN run' = [run EXCEPT ![r] =
          IF remaining > 0 /\ settings.yandex_xml_enabled
            THEN [rec EXCEPT !.pc = "yx_fetch", !.yandex_source = "YandexXML"]
          ELSE IF remaining > 0 /\ settings.yandex_serpapi_enabled
            THEN [rec EXCEPT !.pc = "serp_fetch", !.yandex_source = "YandexSerpAPI"]
          ELSE [rec EXCEPT !.pc = "jobs"]]
  /\ UNCHANGED <<seen, leads, sink, scan_state, area_cache>>
  /\ ScanFrame

\* scan_yandex_xml returns {"collected": yandex_items, "new": yandex_new}
\* and lines 592-594 add them.
WebReturn(rec) ==
  [rec EXCEPT !.pc = "jobs", !.items = <<>>,
              !.collected = @ + rec.yandex_items,
              !.new_leads = @ + rec.yandex_new]

\* fetch_yandex_xml_results raises: one diagnostic, nothing collected.
YandexFetchFail(r) ==
  /\ Turn(r)
  /\ run[r].pc = "yx_fetch"
  /\ run' = [run EXCEPT ![r] =
       [run[r] EXCEPT !.pc = "jobs",
                      !.errors = Append(@, "Yandex XML fetch error")]]
  /\ UNCHANGED <<seen, leads, sink, scan_state, area_cache>>
  /\ ScanFrame

\* fetch_yandex_xml_results returns; a response that does not parse has
\* added a diagnostic to errors on the way.
YandexFetchOk(r) ==
  /\ Turn(r)
  /\ run[r].pc = "yx_fetch"
  /\ \E results \in YandexResults, parse_error \in BOOLEAN :
       /\ parse_error => results = <<>>
       /\ run' = [run EXCEPT ![r] =
            [run[r] EXCEPT !.pc = "yx_item", !.items = results,
                           !.errors = IF parse_error
                                        THEN Append(@, "Yandex XML parse error")
                                      ELSE @]]
  /\ UNCHANGED <<seen, leads, sink, scan_state, area_cache>>
  /\ ScanFrame

\* The loop over results ends, by exhaustion or by the cap's break.
YandexEnd(r) ==
  /\ Turn(r)
  /\ run[r].pc = "yx_item"
  /\ \/ run[r].items = <<>>
     \/ CapReached(run[r].yandex_items, run[r].remaining)
  /\ run' = [run EXCEPT ![r] = WebReturn(run[r])]
  /\ UNCHANGED <<seen, leads, sink, scan_state, area_cache>>
  /\ ScanFrame

\* One pass of the loop of scan_yandex_xml, lines 459-485.
YandexItem(r) ==
  /\ Turn(r)
  /\ run[r].pc = "yx_item"
  /\ run[r].items # <<>>
  /\ ~CapReached(run[r].yandex_items, run[r].remaining)
  /\ LET i == Head(run[r].items)
         url == Items[i].url
         rec == [run[r] EXCEPT !.yandex_items = @ + 1, !.items = Tail(@), !.item = i]
     IN IF is_seen(seen, url)
          THEN /\ run' = [run EXCEPT ![r] =
                    [rec EXCEPT !.yandex_seen = @ + 1, !.calls = <<"is_seen">>]]
               /\ UNCHANGED <<seen, leads>>
        ELSE IF ~Relevant[i]
          THEN /\ seen' = mark_seen(seen, url, clock)
               /\ run' = [run EXCEPT ![r] =
                    [rec EXCEPT !.yandex_seen = @ + 1,
                                !.calls = <<"is_seen", "is_relevant_lead", "mark_seen">>]]
               /\ UNCHANGED leads
        ELSE LET saved == save_lead(leads, YandexLeads[i], clock)
             IN /\ leads' = saved.leads
                /\ seen' = mark_seen(seen, url, clock)
                /\ run' = [run EXCEPT ![r] =
                     [rec EXCEPT !.yandex_new = IF saved.saved THEN @ + 1 ELSE @,
                                 !.calls = <<"is_seen", "is_relevant_lead",
                                             "save_lead", "mark_seen">>]]
  /\ UNCHANGED <<sink, scan_state, area_cache>>
  /\ ScanFrame

\* scan_yandex_serpapi: fetch_yandex_serpapi_results returns no results, the
\* loop has nothing to visit and nothing is added.
SerpFetch(r) ==
  /\ Turn(r)
  /\ run[r].pc = "serp_fetch"
  /\ run' = [run EXCEPT ![r] = WebReturn([run[r] EXCEPT !.items = <<>>])]
  /\ UNCHANGED <<seen, leads, sink, scan_state, area_cache>>
  /\ ScanFrame

(***************************************************************************)
(* run_radar_once, lines 293-440 and 601-609: the job board                *)
(***************************************************************************)

\* run_radar_once returns its report.
Return(rec) ==
  [rec EXCEPT !.pc = "done", !.items = <<>>, !.rest = <<>>, !.areas = <<>>,
              !.lead = NoLead]

\* Lines 601-609, the else branch: the cap leaves no room for the job board.
JobsLimit(r) ==
  /\ Turn(r)
  /\ run[r].pc = "jobs"
  /\ settings.max_items_per_run - run[r].collected <= 0
  /\ run' = [run EXCEPT ![r] =
       Return([run[r] EXCEPT
                 !.remaining = settings.max_items_per_run - run[r].collected,
                 !.hh_skipped_reason = "limit reached by RSS/Yandex"])]
  /\ UNCHANGED <<seen, leads, sink, scan_state, area_cache>>
  /\ ScanFrame

\* scan_hh_jobs, lines 296-301: the job board is switched off.
JobsDisabled(r) ==
  /\ Turn(r)
  /\ run[r].pc = "jobs"
  /\ settings.max_items_per_run - run[r].collected > 0
  /\ ~settings.jobs_scan_enabled
  /\ run' = [run EXCEPT ![r] =
       Return([run[r] EXCEPT
                 !.remaining = settings.max_items_per_run - run[r].collected,
                 !.hh_status_code = 0, !.hh_found = 0, !.hh_links = <<>>,
                 !.hh_error = NULL, !.hh_disabled = TRUE])]
  /\ UNCHANGED <<seen, leads, sink, scan_state, area_cache>>
  /\ ScanFrame

\* scan_hh_jobs, lines 303-310: the last job-board scan is too recent.
JobsThrottled(r) ==
  /\ Turn(r)
  /\ run[r].pc = "jobs"
  /\ settings.max_items_per_run - run[r].collected > 0
  /\ settings.jobs_scan_enabled
  /\ scan_state # None
  /\ run[r].now - scan_state[1] < settings.jobs_scan_interval_hours
  /\ run' = [run EXCEPT ![r] =
       Return([run[r] EXCEPT
                 !.remaining = settings.max_items_per_run - run[r].collected,
                 !.hh_skipped_reason = "interval not reached"])]
  /\ UNCHANGED <<seen, leads, sink, scan_state, area_cache>>
  /\ ScanFrame

\* The head of the loop over queries, lines 329-333: the next query's first
\* fetch, or the end of the scan.
QueryHead(rec, query) ==
  IF query > MaxQueries \/ CapReached(rec.hh_items, rec.remaining)
    THEN [rec EXCEPT !.pc = "hh_finish", !.query = query, !.rest = <<>>]
  ELSE [rec EXCEPT !.query = query, !.vacancies = <<>>, !.found_total = 0,
                   !.rest = <<>>, !.areas = rec.area_candidates,
                   !.pc = IF rec.area_candidates # <<>> THEN "hh_area"
                          ELSE IF rec.kz_id # None THEN "hh_fallback"
                          ELSE "hh_vac"]

\* The job board entered whatever the budget left by the feeds and the web
\* search.
JobsAreasNoBudget(r) ==
  /\ Turn(r)
  /\ run[r].pc = "jobs"
  /\ settings.jobs_scan_enabled
  /\ scan_state # None =>
       ~(run[r].now - scan_state[1] < settings.jobs_scan_interval_hours)
  /\ \E loaded \in IF area_cache # None THEN {area_cache}
                   ELSE {Some(ids) : ids \in AreaIdResults} \cup {None} :
       LET failed == loaded = None
           area_ids == IF failed THEN [kz |-> None, almaty |-> <<>>] ELSE loaded[1]
           area_candidates ==
             IF area_ids.almaty # <<>> THEN area_ids.almaty ELSE settings.hh_areas
           rec == [run[r] EXCEPT
                     !.remaining = settings.max_items_per_run - run[r].collected,
                     !.hh_error = IF failed THEN "area ids error" ELSE @,
                     !.errors = IF failed THEN Append(@, "HH area ids error") ELSE @,
                     !.area_candidates = area_candidates,
                     !.kz_id = area_ids.kz]
       IN /\ area_cache' = IF failed THEN area_cache ELSE loaded
          /\ run' = [run EXCEPT ![r] =
               IF area_candidates = <<>> /\ area_ids.kz = None
                 THEN Return([rec EXCEPT
                        !.hh_status_code = 0, !.hh_found = 0, !.hh_links = <<>>,
                        !.hh_error = "area not found",
                        !.errors = Append(@, "HH area not found")])
               ELSE QueryHead(rec, 1)]
  /\ UNCHANGED <<seen, leads, sink, scan_state>>
  /\ ScanFrame

\* scan_hh_jobs, lines 312-328: the area ids, from the cache or from the
\* area tree, and the areas to search.
JobsAreas(r) ==
  /\ Turn(r)
  /\ run[r].pc = "jobs"
  /\ settings.max_items_per_run - run[r].collected > 0
  /\ settings.jobs_scan_enabled
  /\ scan_state # None =>
       ~(run[r].now - scan_state[1] < settings.jobs_scan_interval_hours)
  /\ \E loaded \in IF area_cache # None THEN {area_cache}
                   ELSE {Some(ids) : ids \in AreaIdResults} \cup {None} :
       LET failed == loaded = None
           area_ids == IF failed THEN [kz |-> None, almaty |-> <<>>] ELSE loaded[1]
           area_candidates ==
             IF area_ids.almaty # <<>> THEN area_ids.almaty ELSE settings.hh_areas
           rec == [run[r] EXCEPT
                     !.remaining = settings.max_items_per_run - run[r].collected,
                     !.hh_error = IF failed THEN "area ids error" ELSE @,
                     !.errors = IF failed THEN Append(@, "HH area ids error") ELSE @,
                     !.area_candidates = area_candidates,
                     !.kz_id = area_ids.kz]
       IN /\ area_cache' = IF failed THEN area_cache ELSE loaded
          /\ run' = [run EXCEPT ![r] =
               IF area_candidates = <<>> /\ area_ids.kz = None
                 THEN Return([rec EXCEPT
                        !.hh_status_code = 0, !.hh_found = 0, !.hh_links = <<>>,
                        !.hh_error = "area not found",
                        !.errors = Append(@, "HH area not found")])
               ELSE QueryHead(rec, 1)]
  /\ UNCHANGED <<seen, leads, sink, scan_state>>
  /\ ScanFrame

\* [vacancy_url(item) for item in vacancies if vacancy_url(item)][:2]
RECURSIVE VacancyUrls(_)
VacancyUrls(vs) ==
  IF vs = <<>> THEN <<>>
  ELSE IF Vacancies[Head(vs)].url = "" THEN VacancyUrls(Tail(vs))
  ELSE <<Vacancies[Head(vs)].url>> \o VacancyUrls(Tail(vs))

\* hh_links without the cut at two links
hh_links_uncut(vs) == VacancyUrls(vs)

hh_links(vs) == SubSeq(VacancyUrls(vs), 1, Min2(2, Len(VacancyUrls(vs))))

\* After the loop over areas, line 362: the country-wide fallback when
\* nothing was found, else the vacancies.
AfterAreas(rec) ==
  IF rec.found_total = 0 /\ rec.kz_id # None
    THEN [rec EXCEPT !.pc = "hh_fallback", !.areas = <<>>]
  ELSE [rec EXCEPT !.pc = "hh_vac", !.areas = <<>>, !.rest = rec.vacancies]

\* fetch_hh_vacancies raises for the current area (either except clause): a
\* diagnostic, next area.
HhAreaFail(r) ==
  /\ Turn(r)
  /\ run[r].pc = "hh_area"
  /\ LET rec == [run[r] EXCEPT !.errors = Append(@, "HH fetch error"),
                               !.hh_error = "fetch error",
                               !.areas = Tail(@)]
     IN run' = [run EXCEPT ![r] =
          IF rec.areas = <<>> THEN AfterAreas(rec) ELSE rec]
  /\ UNCHANGED <<seen, leads, sink, scan_state, area_cache>>
  /\ ScanFrame

\* fetch_hh_vacancies returns for the current area.
HhAreaOk(r) ==
  /\ Turn(r)
  /\ run[r].pc = "hh_area"
  /\ \E result \in HhResults :
       LET rec == [run[r] EXCEPT !.vacancies = result.items,
                                 !.found_total = result.found,
                                 !.hh_status_code = 200,
                                 !.hh_found = result.found,
                                 !.hh_links = hh_links(result.items),
                                 !.areas = Tail(@)]
       IN run' = [run EXCEPT ![r] =
            IF result.found > 0 \/ rec.areas = <<>> THEN AfterAreas(rec) ELSE rec]
  /\ UNCHANGED <<seen, leads, sink, scan_state, area_cache>>
  /\ ScanFrame

\* The country-wide fetch raises and is asked again.
HhFallbackFailRetry(r) ==
  /\ Turn(r)
  /\ run[r].pc = "hh_fallback"
  /\ run' = [run EXCEPT ![r] =
       [run[r] EXCEPT !.errors = Append(@, "HH fallback error"),
                      !.hh_error = "fallback error"]]
  /\ UNCHANGED <<seen, leads, sink, scan_state, area_cache>>
  /\ ScanFrame

\* The country-wide fetch raises: a diagnostic, the vacancies stay.
HhFallbackFail(r) ==
  /\ Turn(r)
  /\ run[r].pc = "hh_fallback"
  /\ run' = [run EXCEPT ![r] =
       [run[r] EXCEPT !.pc = "hh_vac", !.rest = run[r].vacancies,
                      !.errors = Append(@, "HH fallback error"),
                      !.hh_error = "fallback error"]]
  /\ UNCHANGED <<seen, leads, sink, scan_state, area_cache>>
  /\ ScanFrame

\* The country-wide fetch returns.
HhFallbackOk(r) ==
  /\ Turn(r)
  /\ run[r].pc = "hh_fallback"
  /\ \E result \in HhResults :
       run' = [run EXCEPT ![r] =
         [run[r] EXCEPT !.pc = "hh_vac", !.vacancies = result.items,
                        !.rest = result.items,
                        !.hh_status_code = 200, !.hh_found = result.found,
                        !.hh_links = hh_links(result.items)]]
  /\ UNCHANGED <<seen, leads, sink, scan_state, area_cache>>
  /\ ScanFrame

\* The loop over vacancies ends, by exhaustion or by the cap's break: the
\* next query, or the end of the scan.
HhVacanciesEnd(r) ==
  /\ Turn(r)
  /\ run[r].pc = "hh_vac"
  /\ \/ run[r].rest = <<>>
     \/ CapReached(run[r].hh_items, run[r].remaining)
  /\ run' = [run EXCEPT ![r] = QueryHead(run[r], run[r].query + 1)]
  /\ UNCHANGED <<seen, leads, sink, scan_state, area_cache>>
  /\ ScanFrame

\* One pass of the loop over vacancies, lines 389-402, up to the await of
\* the vacancy's detail.
HhVacancy(r) ==
  /\ Turn(r)
  /\ run[r].pc = "hh_vac"
  /\ run[r].rest # <<>>
  /\ ~CapReached(run[r].hh_items, run[r].remaining)
  /\ LET v == Head(run[r].rest)
         url == Vacancies[v].url
         rec == [run[r] EXCEPT !.hh_items = @ + 1, !.rest = Tail(@), !.vacancy = v]
     IN run' = [run EXCEPT ![r] =
          IF url = "" THEN [rec EXCEPT !.calls = <<>>]
          ELSE IF is_seen(seen, url)
            THEN [rec EXCEPT !.hh_seen = @ + 1, !.calls = <<"is_seen">>]
          ELSE [rec EXCEPT !.pc = "hh_detail",
                           !.calls = <<"is_seen">>]]
  /\ UNCHANGED <<seen, leads, sink, scan_state, area_cache>>
  /\ ScanFrame

\* Lines 410-437 after the detail's await: the lead is built from the
\* vacancy and its detail, saved and marked seen, up to the await of
\* send_message.
StoreVacancy(r, has_detail, diagnostic) ==
  LET v == run[r].vacancy
      lead == HhLeads[v][has_detail]
      saved == save_lead(leads, lead, clock)
      notify == ShouldNotify(saved.saved, lead, run[r].sent)
  IN /\ leads' = saved.leads
     /\ seen' = mark_seen(seen, lead.url, clock)
     /\ run' = [run EXCEPT ![r] =
          [run[r] EXCEPT
             !.errors = IF diagnostic THEN Append(@, "HH vacancy detail error") ELSE @,
             !.hh_error = IF diagnostic THEN "detail error" ELSE @,
             !.hh_new = IF saved.saved THEN @ + 1 ELSE @,
             !.pc = IF notify THEN "hh_send" ELSE "hh_vac",
             !.lead = IF notify THEN <<lead>> ELSE @,
             !.calls = <<"is_seen", "save_lead", "mark_seen">>]]

\* fetch_hh_vacancy_detail returns the vacancy's detail.
HhDetailOk(r) ==
  /\ Turn(r)
  /\ run[r].pc = "hh_detail"
  /\ StoreVacancy(r, TRUE, FALSE)
  /\ UNCHANGED <<sink, scan_state, area_cache>>
  /\ ScanFrame

\* fetch_hh_vacancy_detail returns None (a status other than 200).
HhDetailNone(r) ==
  /\ Turn(r)
  /\ run[r].pc = "hh_detail"
  /\ StoreVacancy(r, FALSE, FALSE)
  /\ UNCHANGED <<sink, scan_state, area_cache>>
  /\ ScanFrame

\* fetch_hh_vacancy_detail raises: a diagnostic, and detail = None.
HhDetailFail(r) ==
  /\ Turn(r)
  /\ run[r].pc = "hh_detail"
  /\ StoreVacancy(r, FALSE, TRUE)
  /\ UNCHANGED <<sink, scan_state, area_cache>>
  /\ ScanFrame

\* bot.send_message returns: the lead is in the sink and sent counts it.
HhSendOk(r) ==
  /\ Turn(r)
  /\ run[r].pc = "hh_send"
  /\ sink' = Append(sink, [nr |-> run[r].nr, lead |-> run[r].lead[1]])
  /\ run' = [run EXCEPT ![r] =
       [run[r] EXCEPT !.pc = "hh_vac", !.sent = @ + 1, !.lead = NoLead]]
  /\ UNCHANGED <<seen, leads, scan_state, area_cache>>
  /\ ScanFrame

\* bot.send_message raises: nothing catches it and the call ends.
HhSendFail(r) ==
  /\ Turn(r)
  /\ run[r].pc = "hh_send"
  /\ run' = [run EXCEPT ![r] = [run[r] EXCEPT !.pc = "raised", !.lead = NoLead]]
  /\ UNCHANGED <<seen, leads, sink, scan_state, area_cache>>
  /\ ScanFrame

\* The job board's counts are added to the run's and the scan state is
\* left as it was.
HhFinishNoTimestamp(r) ==
  /\ Turn(r)
  /\ run[r].pc = "hh_finish"
  /\ run' = [run EXCEPT ![r] =
       Return([run[r] EXCEPT !.collected = @ + run[r].hh_items,
                             !.new_leads = @ + run[r].hh_new])]
  /\ UNCHANGED <<seen, leads, sink, area_cache, scan_state>>
  /\ ScanFrame

\* Lines 439-440 and 604-606: set_last_scan, and the job board's counts
\* are added to the run's.
HhFinish(r) ==
  /\ Turn(r)
  /\ run[r].pc = "hh_finish"
  /\ scan_state' = Some(run[r].now)
  /\ run' = [run EXCEPT ![r] =
       Return([run[r] EXCEPT !.collected = @ + run[r].hh_items,
                             !.new_leads = @ + run[r].hh_new])]
  /\ UNCHANGED <<seen, leads, sink, area_cache>>
  /\ ScanFrame

\* A step of call r of run_radar_once.
ScanStep(r) ==
  \/ RssFetchFail(r) \/ RssFetchOk(r) \/ RssFetchMalformed(r)
  \/ RssFeedEnd(r) \/ RssItem(r)
  \/ RssSendOk(r) \/ RssSendFail(r)
  \/ SelectWebSearch(r)
  \/ YandexFetchFail(r) \/ YandexFetchOk(r) \/ YandexEnd(r) \/ YandexItem(r)
  \/ SerpFetch(r)
  \/ JobsLimit(r) \/ JobsDisabled(r) \/ JobsThrottled(r) \/ JobsAreas(r)
  \/ HhAreaFail(r) \/ HhAreaOk(r) \/ HhFallbackFail(r) \/ HhFallbackOk(r)
  \/ HhVacanciesEnd(r) \/ HhVacancy(r)
  \/ HhDetailOk(r) \/ HhDetailNone(r) \/ HhDetailFail(r)
  \/ HhSendOk(r) \/ HhSendFail(r)
  \/ HhFinish(r)

\* A call begins or goes on.
RunStep(r) == StartRun(r) \/ ScanStep(r)

(***************************************************************************)
(* The keyword scorer applied to bounded inputs: a title and a summary     *)
(* are put together from phrases, then scored.                             *)
(***************************************************************************)

\* The most phrases a title and a summary hold together.
MaxPhrases == 3

Phrases == <<
  <<87, 97, 114, 101, 104, 111, 117, 115, 101>> (* Warehouse *),
  <<1090, 1077, 1085, 1076, 1077, 1088, 32, 1085, 1072, 32, 1079, 1072, 1082, 1091, 1087, 1082, 1091, 44, 32, 1079, 1072, 1087, 1091, 1089, 1082>> (* тендер на закупку, запуск *),
  <<1080, 1085, 1074, 1077, 1089, 1090, 1080, 1094, 1080, 1080, 32, 1074, 32, 1089, 1090, 1088, 1086, 1080, 1090, 1077, 1083, 1100, 1089, 1090, 1074, 1086, 32, 1089, 1082, 1083, 1072, 1076, 1072>> (* инвестиции в строительство склада *),
  <<105, 110, 118, 101, 115, 116, 109, 101, 110, 116, 32, 105, 110, 32, 97, 32, 110, 101, 119, 32, 111, 102, 102, 105, 99, 101>> (* investment in a new office *),
  <<1054, 1090, 1082, 1088, 1099, 1090, 1080, 1077, 32, 1085, 1086, 1074, 1086, 1075, 1086, 32, 1088, 1072, 1089, 1087, 1088, 1077, 1076, 1077, 1083, 1080, 1090, 1077, 1083, 1100, 1085, 1086, 1075, 1086, 32, 1094, 1077, 1085, 1090, 1088, 1072, 32, 1074, 32, 1040, 1083, 1084, 1072, 1090, 1099>> (* Открытие нового распределительного центра в Алматы *),
  <<106, 111, 98, 115, 32, 105, 110, 32, 67, 101, 110, 116, 114, 97, 108, 32, 65, 115, 105, 97>> (* jobs in Central Asia *),
  <<67, 111, 108, 100, 32, 99, 104, 97, 105, 110, 32, 1076, 1083, 1103, 32, 1079, 1072, 1074, 1086, 1076, 1072>> (* Cold chain для завода *)
  >>

\* A phrase appended to a text, after a space when the text is not empty.
AppendPhrase(text, phrase) ==
  IF text = <<>> THEN phrase ELSE text \o <<32>> \o phrase

ScoreIdle ==
  /\ sc_title = <<>>
  /\ sc_summary = <<>>
  /\ sc_used = 0
  /\ sc_phase = "build"
  /\ sc_score = 0
  /\ sc_segment = ""
  /\ sc_timing = <<>>

ScAppendTitle ==
  /\ sc_phase = "build"
  /\ sc_used < MaxPhrases
  /\ \E p \in 1..Len(Phrases) : sc_title' = AppendPhrase(sc_title, Phrases[p])
  /\ sc_used' = sc_used + 1
  /\ UNCHANGED <<sc_summary, sc_phase, sc_score, sc_segment, sc_timing>>
  /\ UNCHANGED <<tenantVars, storageVars, radarVars, chatVars, companyVars, lockVars, webVars, fetchVars, matchVars, flowVars>>

ScAppendSummary ==
  /\ sc_phase = "build"
  /\ sc_used < MaxPhrases
  /\ sc_summary = <<>>
  /\ \E p \in 1..Len(Phrases) : sc_summary' = AppendPhrase(sc_summary, Phrases[p])
  /\ sc_used' = sc_used + 1
  /\ UNCHANGED <<sc_title, sc_phase, sc_score, sc_segment, sc_timing>>
  /\ UNCHANGED <<tenantVars, storageVars, radarVars, chatVars, companyVars, lockVars, webVars, fetchVars, matchVars, flowVars>>

\* demand_score, detect_segment and detect_timing applied to the text.
ScScore ==
  /\ sc_phase = "build"
  /\ sc_phase' = "scored"
  /\ sc_score' = demand_score(sc_title, sc_summary)
  /\ sc_segment' = detect_segment(sc_title, sc_summary)
  /\ sc_timing' = detect_timing(sc_title, sc_summary)
  /\ UNCHANGED <<sc_title, sc_summary, sc_used>>
  /\ UNCHANGED <<tenantVars, storageVars, radarVars, chatVars, companyVars, lockVars, webVars, fetchVars, matchVars, flowVars>>


(***************************************************************************)
(* app/scoring.py: the tenant matcher                                      *)
(***************************************************************************)

Abs(x) == IF x < 0 THEN -x ELSE x

REASON_IN_BUDGET == <<1074, 32, 1073, 1102, 1076, 1078, 1077, 1090, 1077>> (* в бюджете *)
REASON_NEAR_BUDGET == <<1087, 1086, 1095, 1090, 1080, 32, 1074, 32, 1073, 1102, 1076, 1078, 1077, 1090, 1077>> (* почти в бюджете *)
REASON_UNDER_MAX == <<1074, 32, 1087, 1088, 1077, 1076, 1077, 1083, 1072, 1093, 32, 1073, 1102, 1076, 1078, 1077, 1090, 1072>> (* в пределах бюджета *)
REASON_OVER_MIN == <<1074, 1099, 1096, 1077, 32, 1084, 1080, 1085, 1080, 1084, 1072, 1083, 1100, 1085, 1086, 1075, 1086, 32, 1073, 1102, 1076, 1078, 1077, 1090, 1072>> (* выше минимального бюджета *)
REASON_DISTRICT == <<1085, 1091, 1078, 1085, 1099, 1081, 32, 1088, 1072, 1081, 1086, 1085>> (* нужный район *)
REASON_TYPE == <<1087, 1086, 1076, 1093, 1086, 1076, 1103, 1097, 1080, 1081, 32, 1090, 1080, 1087, 32, 1086, 1073, 1098, 1077, 1082, 1090, 1072>> (* подходящий тип объекта *)
REASON_PETS == <<1084, 1086, 1078, 1085, 1086, 32, 1089, 32, 1078, 1080, 1074, 1086, 1090, 1085, 1099, 1084, 1080>> (* можно с животными *)
REASON_PARKING == <<1077, 1089, 1090, 1100, 32, 1087, 1072, 1088, 1082, 1086, 1074, 1082, 1072>> (* есть парковка *)
REASON_VERIFIED == <<1072, 1082, 1090, 1091, 1072, 1083, 1100, 1085, 1086, 1077, 32, 1086, 1073, 1098, 1103, 1074, 1083, 1077, 1085, 1080, 1077>> (* актуальное объявление *)

\* One scoring step: the points it adds and the reasons it appends.
Step(points, reasons) == [points |-> points, reasons |-> reasons]
NoStep == Step(0, <<>>)

\* delta <= max(1, (budget_max or budget_min) * 0.1), on integers.
NearBudget(price, budget_min, budget_max) ==
  LET delta == Min2(Abs(price - budget_min), Abs(price - budget_max))
      base == IF budget_max # 0 THEN budget_max ELSE budget_min
  IN 10 * delta <= Max2(10, base)

BudgetStep(profile, listing) ==
  LET price == listing.price
      budget_min == profile.budget_min
      budget_max == profile.budget_max
  IN IF price = None THEN NoStep
     ELSE IF budget_min # None /\ budget_max # None
       THEN IF budget_min[1] <= price[1] /\ price[1] <= budget_max[1]
              THEN Step(35, <<REASON_IN_BUDGET>>)
            ELSE IF NearBudget(price[1], budget_min[1], budget_max[1])
              THEN Step(15, <<REASON_NEAR_BUDGET>>)
            ELSE NoStep
     ELSE IF budget_max # None /\ price[1] <= budget_max[1]
       THEN Step(30, <<REASON_UNDER_MAX>>)
     ELSE IF budget_min # None /\ price[1] >= budget_min[1]
       THEN Step(20, <<REASON_OVER_MIN>>)
     ELSE NoStep

\* The district test without lower(): "Алматы" is not "алматы".
DistrictStepCaseSensitive(profile, listing) ==
  IF /\ profile.district # <<>>
     /\ listing.district # <<>>
     /\ (profile.district = listing.district
           \/ Contains(profile.district, listing.district))
    THEN Step(25, <<REASON_DISTRICT>>)
  ELSE NoStep

DistrictStep(profile, listing) ==
  LET district == Lower(profile.district)
      listing_district == Lower(listing.district)
  IN IF /\ district # <<>>
        /\ listing_district # <<>>
        /\ (district = listing_district \/ Contains(district, listing_district))
       THEN Step(25, <<REASON_DISTRICT>>)
     ELSE NoStep

TypeStep(profile, listing) ==
  LET property_type == Lower(profile.property_type)
      listing_type == Lower(listing.property_type)
  IN IF /\ property_type # <<>>
        /\ listing_type # <<>>
        /\ (Contains(property_type, listing_type) \/ Contains(listing_type, property_type))
       THEN Step(15, <<REASON_TYPE>>)
     ELSE NoStep

\* `required in {"да", "yes"}` after lower().
IsYes(required) == Lower(required) \in { <<1076, 1072>> (* да *), <<121, 101, 115>> (* yes *) }

PetsStep(profile, listing) ==
  IF IsYes(profile.pets)
    THEN IF listing.pets_allowed THEN Step(10, <<REASON_PETS>>) ELSE Step(-5, <<>>)
  ELSE NoStep

ParkingStep(profile, listing) ==
  IF IsYes(profile.parking)
    THEN IF listing.parking THEN Step(10, <<REASON_PARKING>>) ELSE Step(-5, <<>>)
  ELSE NoStep

VerifiedStep(listing) ==
  IF listing.verified_at THEN Step(5, <<REASON_VERIFIED>>) ELSE NoStep

\* The steps of tenant_match_score in the order the code takes them.
MatchSteps(profile, listing) ==
  << BudgetStep(profile, listing), DistrictStep(profile, listing),
     TypeStep(profile, listing), PetsStep(profile, listing),
     ParkingStep(profile, listing), VerifiedStep(listing) >>

RECURSIVE SumPoints(_)
SumPoints(steps) ==
  IF steps = <<>> THEN 0 ELSE Head(steps).points + SumPoints(Tail(steps))

RECURSIVE AllReasons(_)
AllReasons(steps) ==
  IF steps = <<>> THEN <<>> ELSE Head(steps).reasons \o AllReasons(Tail(steps))

\* The final `max(score, 0)` left out: the raw sum.
FloorScoreMissing(score) == score

\* max(score, 0)
FloorScore(score) == Max2(score, 0)

tenant_match_score(profile, listing) ==
  LET steps == MatchSteps(profile, listing)
  IN [score |-> FloorScore(SumPoints(steps)), reasons |-> AllReasons(steps)]

(***************************************************************************)
(* The tenant matcher applied to bounded inputs                            *)
(***************************************************************************)

BudgetMins == {None, Some(100)}
BudgetMaxs == {None, Some(0), Some(200)}
Prices == {None, Some(85), Some(90), Some(150), Some(200), Some(220), Some(221)}

ProfileDistricts == { <<>>, <<1040, 1083, 1084, 1072, 1090, 1099>> (* Алматы *), <<1040, 1083, 1084, 1072, 1090, 1099, 44, 32, 1041, 1086, 1089, 1090, 1072, 1085, 1076, 1099, 1082, 1089, 1082, 1080, 1081, 32, 1088, 1072, 1081, 1086, 1085>> (* Алматы, Бостандыкский район *) }
ListingDistricts == { <<>>, <<1072, 1083, 1084, 1072, 1090, 1099>> (* алматы *), <<1075, 46, 32, 1040, 1083, 1084, 1072, 1090, 1099, 44, 32, 1052, 1077, 1076, 1077, 1091, 1089, 1082, 1080, 1081, 32, 1088, 1072, 1081, 1086, 1085>> (* г. Алматы, Медеуский район *) }
ProfileTypes == { <<>>, <<1057, 1082, 1083, 1072, 1076, 32, 1082, 1083, 1072, 1089, 1089, 1072, 32, 65>> (* Склад класса A *) }
ListingTypes == { <<>>, <<1089, 1082, 1083, 1072, 1076>> (* склад *) }
PetsAnswers == { <<>>, <<1044, 1072>> (* Да *), <<1085, 1077, 1090>> (* нет *) }
ParkingAnswers == { <<>>, <<121, 101, 115>> (* yes *) }

Profiles ==
  [budget_min : BudgetMins, budget_max : BudgetMaxs, district : ProfileDistricts,
   property_type : ProfileTypes, pets : PetsAnswers, parking : ParkingAnswers]

Listings ==
  [price : Prices, district : ListingDistricts, property_type : ListingTypes,
   pets_allowed : BOOLEAN, parking : BOOLEAN, verified_at : BOOLEAN]

NoProfile == [budget_min |-> None, budget_max |-> None, district |-> <<>>,
              property_type |-> <<>>, pets |-> <<>>, parking |-> <<>>]
NoListing == [price |-> None, district |-> <<>>, property_type |-> <<>>,
              pets_allowed |-> FALSE, parking |-> FALSE, verified_at |-> FALSE]
NoResult == [score |-> 0, reasons |-> <<>>]

TenantIdle ==
  /\ tn_profile = NoProfile
  /\ tn_listing = NoListing
  /\ tn_phase = "input"
  /\ tn_result = NoResult

TenantInit ==
  /\ tn_profile \in Profiles
  /\ tn_listing \in Listings
  /\ tn_phase = "input"
  /\ tn_result = NoResult

\* tenant_match_score(profile, listing)
TnMatch ==
  /\ tn_phase = "input"
  /\ tn_phase' = "matched"
  /\ tn_result' = tenant_match_score(tn_profile, tn_listing)
  /\ UNCHANGED <<tn_profile, tn_listing>>
  /\ UNCHANGED <<scoreVars, storageVars, radarVars, chatVars, companyVars, lockVars, webVars, fetchVars, matchVars, flowVars>>


(***************************************************************************)
(* app/scoring.py: guess_company                                           *)
(***************************************************************************)

\* The characters `\s` matches and str.strip() removes.
WHITESPACE ==
  {9, 10, 11, 12, 13, 28, 29, 30, 31, 32, 133, 160, 5760}
    \cup (8192..8202) \cup {8232, 8233, 8239, 8287, 12288}

\* The characters of candidate.strip('"“”').
COMPANY_QUOTES == {34, 8220, 8221}

\* The characters of the class [-|:].
DELIMITER_MARKS == {45, 124, 58}

\* text.strip(chars): the characters of the set removed from both ends.
RECURSIVE TrimLeft(_, _)
TrimLeft(text, chars) ==
  IF text # <<>> /\ Head(text) \in chars THEN TrimLeft(Tail(text), chars) ELSE text

RECURSIVE TrimRight(_, _)
TrimRight(text, chars) ==
  IF text # <<>> /\ text[Len(text)] \in chars
    THEN TrimRight(SubSeq(text, 1, Len(text) - 1), chars)
  ELSE text

TrimBoth(text, chars) == TrimLeft(TrimRight(text, chars), chars)

\* Where the pattern \s[-|:]\s matches in the title.
DelimiterAt(title) ==
  {i \in 1..(Len(title) - 2) :
     /\ title[i] \in WHITESPACE
     /\ title[i + 1] \in DELIMITER_MARKS
     /\ title[i + 2] \in WHITESPACE}

\* A split that keeps everything before the last match.
LastDelimiter(title) ==
  IF DelimiterAt(title) = {} THEN 0
  ELSE CHOOSE i \in DelimiterAt(title) : \A j \in DelimiterAt(title) : j <= i

\* re.split(r"\s[-|:]\s", title): where parts[0] ends; 0 without a match.
FirstDelimiter(title) ==
  IF DelimiterAt(title) = {} THEN 0
  ELSE CHOOSE i \in DelimiterAt(title) : \A j \in DelimiterAt(title) : i <= j

guess_company(title) ==
  IF title = <<>> THEN <<>>
  ELSE LET d == FirstDelimiter(title)
           first == IF d = 0 THEN title ELSE SubSeq(title, 1, d - 1)
           candidate == TrimBoth(first, WHITESPACE)
       IN TrimBoth(candidate, COMPANY_QUOTES)

(***************************************************************************)
(* guess_company applied to titles put together from a head, a delimiter   *)
(* and a tail                                                              *)
(***************************************************************************)

CompanyHeads ==
  { <<>>, <<65, 108, 109, 97, 116, 121, 32, 76, 111, 103, 105, 115, 116, 105, 99, 115, 32, 76, 76, 67>> (* Almaty Logistics LLC *), <<34, 75, 97, 115, 112, 105, 34>> (* "Kaspi" *), <<8220, 32, 69, 76, 80, 32, 8221>> (* “ ELP ” *), <<32, 77, 97, 103, 110, 117, 109, 32>> (*  Magnum  *),
    <<171, 1052, 1072, 1075, 1085, 1091, 1084, 187>> (* «Магнум» *), <<65, 45, 66>> (* A-B *) }

CompanyDelimiters ==
  { <<>>, <<32, 45, 32>> (*  -  *), <<32, 124, 32>> (*  |  *), <<32, 58, 32>> (*  :  *), <<45>> (* - *), <<32, 45>> (*  - *),
    \* a line break, a dash, a space
    <<10, 45, 32>> }

CompanyTails == { <<>>, <<87, 97, 114, 101, 104, 111, 117, 115, 101, 32, 77, 97, 110, 97, 103, 101, 114, 32, 124, 32, 65, 108, 109, 97, 116, 121>> (* Warehouse Manager | Almaty *), <<1089, 1082, 1083, 1072, 1076>> (* склад *) }

CompanyTitles ==
  {h \o d \o t : h \in CompanyHeads, d \in CompanyDelimiters, t \in CompanyTails}

CompanyIdle ==
  /\ gc_title = <<>>
  /\ gc_phase = "idle"
  /\ gc_result = <<>>

CompanyInit ==
  /\ gc_title \in CompanyTitles
  /\ gc_phase = "input"
  /\ gc_result = <<>>

\* guess_company(title)
GcGuess ==
  /\ gc_phase = "input"
  /\ gc_phase' = "guessed"
  /\ gc_result' = guess_company(gc_title)
  /\ UNCHANGED gc_title
  /\ UNCHANGED <<storageVars, scoreVars, tenantVars, radarVars, chatVars, lockVars, webVars, fetchVars, matchVars, flowVars>>

(***************************************************************************)
(* app/storage.py: the table `settings` (chat_id PRIMARY KEY,              *)
(* period_hours, updated_at) and the queries on `leads`                    *)
(***************************************************************************)

\* default_hours = 168
DEFAULT_PERIOD_HOURS == 168

Chats == {1, 2}

\* The hours handed to set_period_hours.
PeriodChoices == {0, 24, 168}

PeriodRow(hours, now) == [period_hours |-> hours, updated_at |-> now]

\* get_period_hours that answers the default whatever is stored.
get_period_hours_default_only(rows, chat_id, now) ==
  [rows |-> IF rows[chat_id] # None THEN rows
            ELSE [rows EXCEPT ![chat_id] = Some(PeriodRow(DEFAULT_PERIOD_HOURS, now))],
   hours |-> DEFAULT_PERIOD_HOURS]

\* Storage.get_period_hours: the stored hours, or INSERT OR IGNORE of the
\* default and the default.
get_period_hours(rows, chat_id, now) ==
  IF rows[chat_id] # None
    THEN [rows |-> rows, hours |-> rows[chat_id][1].period_hours]
  ELSE [rows |-> [rows EXCEPT ![chat_id] = Some(PeriodRow(DEFAULT_PERIOD_HOURS, now))],
        hours |-> DEFAULT_PERIOD_HOURS]

\* Storage.set_period_hours: INSERT ... ON CONFLICT(chat_id) DO UPDATE
set_period_hours(rows, chat_id, hours, now) ==
  [rows EXCEPT ![chat_id] = Some(PeriodRow(hours, now))]

\* The rows of `leads` that pass the WHERE clause of leads_since and
\* count_leads_since: min_score is None or Some(n), source "" is no filter.
LeadsMatching(rows, now, hours, min_score, source) ==
  {i \in 1..Len(rows) :
     /\ rows[i].created_at >= now - hours
     /\ (min_score # None => rows[i].demand_score >= min_score[1])
     /\ (source # "" => rows[i].source = source)}

\* Storage.leads_since: ORDER BY created_at DESC LIMIT ?. The sets of row
\* ids the query can answer with (rows created at the same time come in
\* any order).
leads_since(rows, now, hours, min_score, source, limit) ==
  LET matching == LeadsMatching(rows, now, hours, min_score, source)
      size == Min2(limit, Cardinality(matching))
  IN {ids \in SUBSET matching :
        /\ Cardinality(ids) = size
        /\ \A i \in ids : \A j \in matching \ ids :
             rows[i].created_at >= rows[j].created_at}

\* Storage.count_leads_since
count_leads_since(rows, now, hours, min_score, source) ==
  Cardinality(LeadsMatching(rows, now, hours, min_score, source))

(***************************************************************************)
(* The period calls made directly, in any order                            *)
(***************************************************************************)

\* No call yet; set_to keeps the hours of each chat's last set_period_hours.
NoChatCall ==
  [n |-> 0, op |-> "none", chat |-> 0, hours |-> 0, reply |-> {},
   set_to |-> [c \in Chats |-> None]]

ChatIdle ==
  /\ period = [c \in Chats |-> None]
  /\ chat_last = NoChatCall

PdGet ==
  \E c \in Chats :
    LET r == get_period_hours(period, c, clock)
    IN /\ period' = r.rows
       /\ chat_last' = [chat_last EXCEPT !.op = "get_period_hours", !.chat = c,
                                         !.hours = r.hours]
       /\ UNCHANGED <<storageVars, scoreVars, tenantVars, radarVars, companyVars, lockVars, webVars, fetchVars, matchVars, flowVars>>

PdSet ==
  \E c \in Chats, h \in PeriodChoices :
    /\ period' = set_period_hours(period, c, h, clock)
    /\ chat_last' = [chat_last EXCEPT !.op = "set_period_hours", !.chat = c,
                                      !.hours = h, !.set_to[c] = Some(h)]
    /\ UNCHANGED <<storageVars, scoreVars, tenantVars, radarVars, companyVars, lockVars, webVars, fetchVars, matchVars, flowVars>>

(***************************************************************************)
(* app/main.py: acquire_polling_lock and main_async                        *)
(***************************************************************************)

Instances == {1, 2, 3}

\* os.path.dirname(settings.db_path) of an instance's configuration.
DbDirs == {"", "/var/data", "/data"}

\* candidate_dirs.extend(["/var/data", "/tmp"])
FALLBACK_DIRS == <<"/var/data", "/tmp">>

\* The directories a lock file can be in; "." when no candidate is usable.
LockDirs == {"/var/data", "/data", "/tmp", "."}

\* main_async, lines 1092-1110, and acquire_polling_lock, lines 70-79: the
\* directory of the lock file.  `usable` says that the directory of the
\* database exists (or could be made) and is writable; otherwise db_path
\* falls back to "radar.db", which has no directory.  `writable` is the set
\* of fallback directories that are directories and writable.
lock_dir(db_dir, usable, writable) ==
  IF db_dir # "" /\ usable THEN db_dir
  ELSE IF FALLBACK_DIRS[1] \in writable THEN FALLBACK_DIRS[1]
  ELSE IF FALLBACK_DIRS[2] \in writable THEN FALLBACK_DIRS[2]
  ELSE "."

\* A process that has not been started.
NewInstance ==
  [pc |-> "new", lock_dir |-> "", storage |-> FALSE, scheduler |-> FALSE,
   poller |-> FALSE]

LockIdle ==
  /\ locks = [d \in LockDirs |-> 0]
  /\ inst = [i \in Instances |-> NewInstance]

LockFrame ==
  UNCHANGED <<storageVars, scoreVars, tenantVars, radarVars, chatVars, companyVars, webVars, fetchVars, matchVars, flowVars>>

\* A start that does not look at who holds the lock.
InstAcquireUnlocked(i) ==
  /\ inst[i].pc = "new"
  /\ \E db_dir \in DbDirs, usable \in BOOLEAN, writable \in SUBSET {"/var/data", "/tmp"} :
       LET dir == lock_dir(db_dir, usable, writable)
       IN /\ locks' = [locks EXCEPT ![dir] = i]
          /\ inst' = [inst EXCEPT ![i] =
               [pc |-> "polling", lock_dir |-> dir, storage |-> TRUE,
                scheduler |-> TRUE, poller |-> TRUE]]
  /\ LockFrame

\* main_async up to `await dispatcher.start_polling(bot)`: flock succeeds,
\* then Storage, Bot, dispatcher and scheduler are made and polling begins.
InstAcquire(i) ==
  /\ inst[i].pc = "new"
  /\ \E db_dir \in DbDirs, usable \in BOOLEAN, writable \in SUBSET {"/var/data", "/tmp"} :
       LET dir == lock_dir(db_dir, usable, writable)
       IN /\ locks[dir] = 0
          /\ locks' = [locks EXCEPT ![dir] = i]
          /\ inst' = [inst EXCEPT ![i] =
               [pc |-> "polling", lock_dir |-> dir, storage |-> TRUE,
                scheduler |-> TRUE, poller |-> TRUE]]
  /\ LockFrame

\* flock raises EACCES or EAGAIN: the lock is held; acquire_polling_lock
\* returns None and main_async returns.
InstLockHeld(i) ==
  /\ inst[i].pc = "new"
  /\ \E db_dir \in DbDirs, usable \in BOOLEAN, writable \in SUBSET {"/var/data", "/tmp"} :
       LET dir == lock_dir(db_dir, usable, writable)
       IN /\ locks[dir] # 0
          /\ inst' = [inst EXCEPT ![i] = [NewInstance EXCEPT !.pc = "exited", !.lock_dir = dir]]
  /\ UNCHANGED locks
  /\ LockFrame

\* open() or flock raises another OSError: acquire_polling_lock re-raises
\* and the process ends with it.
InstLockError(i) ==
  /\ inst[i].pc = "new"
  /\ \E db_dir \in DbDirs, usable \in BOOLEAN, writable \in SUBSET {"/var/data", "/tmp"} :
       inst' = [inst EXCEPT ![i] =
         [NewInstance EXCEPT !.pc = "crashed",
                             !.lock_dir = lock_dir(db_dir, usable, writable)]]
  /\ UNCHANGED locks
  /\ LockFrame

\* Storage(db_path) raises after the lock was taken: the finally clause
\* unlocks and the process ends.
InstSetupFail(i) ==
  /\ inst[i].pc = "new"
  /\ \E db_dir \in DbDirs, usable \in BOOLEAN, writable \in SUBSET {"/var/data", "/tmp"} :
       LET dir == lock_dir(db_dir, usable, writable)
       IN /\ locks[dir] = 0
          /\ inst' = [inst EXCEPT ![i] = [NewInstance EXCEPT !.pc = "crashed", !.lock_dir = dir]]
  /\ UNCHANGED locks
  /\ LockFrame

\* start_polling returns or raises: the finally clause unlocks and closes.
InstStop(i) ==
  /\ inst[i].pc = "polling"
  /\ locks' = [locks EXCEPT ![inst[i].lock_dir] = 0]
  /\ inst' = [inst EXCEPT ![i] = [@ EXCEPT !.pc = "stopped", !.poller = FALSE]]
  /\ LockFrame

(***************************************************************************)
(* app/main.py: the chat handlers of build_dispatcher that call the        *)
(* storage gateway.  Each makes its storage calls before its first await,  *)
(* so a handler is one step, taken between the steps of the scans.         *)
(***************************************************************************)

MaxCommands == 2

\* settings.admin_chat_id
AdminChat == 1

\* limit=10 of the lead commands
REPLY_LIMIT == 10

\* min_score=60 of /hot and /hh_hot
HOT_MIN_SCORE == 60

\* The arguments handle_radar, handle_hot, handle_hh_leads_button and
\* handle_hh_hot hand to leads_since.
LeadCommands ==
  { [op |-> "radar", min_score |-> None, source |-> ""],
    [op |-> "hot", min_score |-> Some(HOT_MIN_SCORE), source |-> ""],
    [op |-> "hh_leads", min_score |-> None, source |-> "HeadHunter"],
    [op |-> "hh_hot", min_score |-> Some(HOT_MIN_SCORE), source |-> "HeadHunter"] }

\* What follows "period:" in the callback data: a button's value, a zero,
\* a word, and a superscript two.
CallbackValues == { <<50, 52>> (* 24 *), <<48>> (* 0 *), <<119, 101, 101, 107>> (* week *), <<178>> }

\* str.isdigit(): the decimal digits, and the superscript digits that
\* int() does not take.
DECIMAL_DIGITS == 48..57
SUPERSCRIPT_DIGITS == {178, 179, 185}

IsDigitString(value) ==
  /\ value # <<>>
  /\ \A k \in 1..Len(value) : value[k] \in DECIMAL_DIGITS \cup SUPERSCRIPT_DIGITS

RECURSIVE DecimalValue(_)
DecimalValue(value) ==
  IF value = <<>> THEN 0
  ELSE 10 * DecimalValue(SubSeq(value, 1, Len(value) - 1)) + (value[Len(value)] - 48)

\* hours = int(value) if value.isdigit() else 168; None when int() raises.
callback_hours(value) ==
  IF ~IsDigitString(value) THEN Some(DEFAULT_PERIOD_HOURS)
  ELSE IF \A k \in 1..Len(value) : value[k] \in DECIMAL_DIGITS
    THEN Some(DecimalValue(value))
  ELSE None

ChatFrame ==
  UNCHANGED <<storageVars, scoreVars, tenantVars, radarVars, companyVars, lockVars, webVars, fetchVars, matchVars, flowVars>>

\* A lead command that deletes the rows it has answered with.
CmdLeadsConsuming ==
  \E c \in Chats, k \in LeadCommands :
    LET g == get_period_hours(period, c, clock)
    IN /\ chat_last.n < MaxCommands
       /\ \E ids \in leads_since(leads, clock, g.hours, k.min_score, k.source, REPLY_LIMIT) :
            /\ chat_last' = [chat_last EXCEPT !.n = @ + 1, !.op = k.op, !.chat = c,
                                              !.hours = g.hours, !.reply = ids]
            /\ leads' = SelectSeq(leads, LAMBDA row : row.id \notin ids)
       /\ period' = g.rows
       /\ UNCHANGED <<seen, clock, st_last>>
       /\ UNCHANGED <<scoreVars, tenantVars, radarVars, companyVars, lockVars, webVars, fetchVars, matchVars, flowVars>>

\* handle_radar, handle_hot, handle_hh_leads_button, handle_hh_hot: the
\* chat's period, then the leads of that period.
CmdLeads ==
  \E c \in Chats, k \in LeadCommands :
    LET g == get_period_hours(period, c, clock)
    IN /\ chat_last.n < MaxCommands
       /\ \E ids \in leads_since(leads, clock, g.hours, k.min_score, k.source, REPLY_LIMIT) :
            chat_last' = [chat_last EXCEPT !.n = @ + 1, !.op = k.op, !.chat = c,
                                           !.hours = g.hours, !.reply = ids]
       /\ period' = g.rows
       /\ ChatFrame

\* handle_settings_button: the chat's period is read and shown.
CmdSettings ==
  \E c \in Chats :
    LET g == get_period_hours(period, c, clock)
    IN /\ chat_last.n < MaxCommands
       /\ chat_last' = [chat_last EXCEPT !.n = @ + 1, !.op = "settings", !.chat = c,
                                         !.hours = g.hours, !.reply = {}]
       /\ period' = g.rows
       /\ ChatFrame

\* handle_period_select: the hours of the callback data are stored for the
\* chat; when int() raises nothing is stored.
CmdPeriodSelect ==
  \E c \in Chats, value \in CallbackValues :
    LET hours == callback_hours(value)
    IN /\ chat_last.n < MaxCommands
       /\ IF hours = None
            THEN /\ chat_last' = [chat_last EXCEPT !.n = @ + 1, !.op = "period_raised",
                                                   !.chat = c, !.hours = 0, !.reply = {}]
                 /\ UNCHANGED period
          ELSE /\ chat_last' = [chat_last EXCEPT !.n = @ + 1, !.op = "period_select",
                                                 !.chat = c, !.hours = hours[1],
                                                 !.reply = {}, !.set_to[c] = hours]
               /\ period' = set_period_hours(period, c, hours[1], clock)
       /\ ChatFrame

\* handle_diag, handle_debug_status: refused to any chat but the
\* administrator's; otherwise the period is read and the tables counted.
CmdStatus ==
  \E c \in Chats :
    LET g == get_period_hours(period, c, clock)
    IN /\ chat_last.n < MaxCommands
       /\ IF c # AdminChat
            THEN /\ chat_last' = [chat_last EXCEPT !.n = @ + 1, !.op = "refused",
                                                   !.chat = c, !.hours = 0, !.reply = {}]
                 /\ UNCHANGED period
          ELSE /\ chat_last' = [chat_last EXCEPT !.n = @ + 1, !.op = "status", !.chat = c,
                                  !.hours = g.hours,
                                  !.reply = {}]
               /\ period' = g.rows
       /\ ChatFrame

\* handle_scan_now: a call of run_radar_once begins, in the lowest free
\* slot and while no other call is running; its report, or the line
\* "ERROR: ...", is answered when the call has ended.
CmdScanNow(r) ==
  /\ chat_last.n < MaxCommands
  /\ Quiet
  /\ \A q \in Slots : q < r => run[q].pc \notin Terminal
  /\ run' = [run EXCEPT ![r] = EntryRun(started + 1, clock)]
  /\ started' = started + 1
  /\ \E c \in Chats :
       chat_last' = [chat_last EXCEPT !.n = @ + 1, !.op = "scan_now", !.chat = c,
                                      !.hours = 0, !.reply = {}]
  /\ UNCHANGED <<settings, scan_state, area_cache, sink, period>>
  /\ UNCHANGED <<storageVars, scoreVars, tenantVars, companyVars, lockVars, webVars, fetchVars, matchVars, flowVars>>

\* A message or callback reaches one of the handlers.
ChatCommand ==
  \/ CmdLeads \/ CmdSettings \/ CmdPeriodSelect \/ CmdStatus
  \/ \E r \in Slots : CmdScanNow(r)

(***************************************************************************)
(* app/yandex_xml.py: fetch_yandex_xml_results, query by query, under      *)
(* scan_yandex_xml's try/except                                            *)
(***************************************************************************)

\* The number of queries handed to the fetch (SIGNAL_QUERIES_RU, shortened).
MaxWebQueries == 3

\* max_results_per_query, as scan_yandex_xml passes it.
MAX_RESULTS_PER_QUERY == 5

\* The doc elements one response can hold, as indices into Items; 0 is a
\* doc element without a url.
WebDocs == { <<>>, <<3>>, <<6, 0, 5, 2, 3, 7>> }

\* Lines 61-67: the first max_results_per_query docs, those with a url.
QueryResults(docs) ==
  LET first == SubSeq(docs, 1, Min2(Len(docs), MAX_RESULTS_PER_QUERY))
      HasUrl(d) == d \in DOMAIN Items /\ Items[d].url # ""
  IN SelectSeq(first, HasUrl)

\* A call of scan_yandex_xml that has just entered fetch_yandex_xml_results.
WebFetchEntry(enabled) ==
  [pc |-> "query", enabled |-> enabled, log |-> <<>>, results |-> <<>>,
   errors |-> <<>>, processed |-> <<>>]

WebFetchIdle == yx = [WebFetchEntry(FALSE) EXCEPT !.pc = "idle"]

WebFetchInit == \E enabled \in BOOLEAN : yx = WebFetchEntry(enabled)

WebFetchFrame ==
  UNCHANGED <<storageVars, scoreVars, tenantVars, radarVars, chatVars,
              companyVars, lockVars, fetchVars, matchVars, flowVars>>

\* Lines 48-49: without user and key the fetch returns [] at once.
YxDisabled ==
  /\ yx.pc = "query"
  /\ ~yx.enabled
  /\ yx' = [yx EXCEPT !.pc = "returned"]
  /\ WebFetchFrame

\* The loop of line 52 stands before a query.
AtQuery ==
  /\ yx.pc = "query"
  /\ yx.enabled
  /\ Len(yx.log) < MaxWebQueries

\* Line 53: client.get raises (a transport error or the 20 s timeout);
\* nothing in the function catches it.
YxTransportError ==
  /\ AtQuery
  /\ \E kind \in {"transport", "timeout"} :
       yx' = [yx EXCEPT !.pc = "raised", !.log = Append(@, kind)]
  /\ WebFetchFrame

\* Lines 54-55: a status other than 200, the next query.
YxNon200 ==
  /\ AtQuery
  /\ yx' = [yx EXCEPT !.log = Append(@, "non200")]
  /\ WebFetchFrame

\* Lines 56-62: the response does not parse, a diagnostic, the next query.
YxParseError ==
  /\ AtQuery
  /\ yx' = [yx EXCEPT !.log = Append(@, "parse"),
                      !.errors = Append(@, "Yandex XML parse error")]
  /\ WebFetchFrame

\* Lines 63-69: the docs of a parsed response are added to the results.
YxQueryOk ==
  /\ AtQuery
  /\ \E docs \in WebDocs :
       yx' = [yx EXCEPT !.log = Append(@, "ok"),
                        !.results = @ \o QueryResults(docs)]
  /\ WebFetchFrame

\* Line 70: the queries are through.
YxReturn ==
  /\ yx.pc = "query"
  /\ yx.enabled
  /\ Len(yx.log) = MaxWebQueries
  /\ yx' = [yx EXCEPT !.pc = "returned"]
  /\ WebFetchFrame

\* scan_yandex_xml, lines 454-457: the fetch raised, one diagnostic and the
\* phase returns with nothing collected.
YxScanCatch ==
  /\ yx.pc = "raised"
  /\ yx' = [yx EXCEPT !.pc = "phase_end",
                      !.errors = Append(@, "Yandex XML fetch error")]
  /\ WebFetchFrame

\* scan_yandex_xml, lines 458-485: the results go through the result loop.
YxScanResults ==
  /\ yx.pc = "returned"
  /\ yx' = [yx EXCEPT !.pc = "phase_end", !.processed = yx.results]
  /\ WebFetchFrame

(***************************************************************************)
(* app/main.py: the fetches of one call of run_radar_once and the worker   *)
(* threads asyncio.to_thread runs them in                                  *)
(***************************************************************************)

\* The fetches of a call in the order the code starts them: the feeds, each
\* under asyncio.wait_for(..., timeout=15.0), then the queries, each under
\* a bare await of asyncio.to_thread.
NumFetches == MaxFeeds + MaxWebQueries

FetchKind(i) == IF i <= MaxFeeds THEN "feed" ELSE "query"

\* A call before its first fetch: nothing awaited (0), no thread running.
NoFetches ==
  [next |-> 1, awaited |-> 0, threads |-> {}, abandoned |-> {}, log |-> <<>>]

FetchesIdle == ff = [NoFetches EXCEPT !.next = 0]

FetchesInit == ff = NoFetches

FetchesFrame ==
  UNCHANGED <<storageVars, scoreVars, tenantVars, radarVars, chatVars,
              companyVars, lockVars, webVars, matchVars, flowVars>>

\* A fetch is started whatever is still awaited.
FetchStartUnawaited ==
  /\ ff.next \in 1..NumFetches
  /\ ff' = [ff EXCEPT !.awaited = ff.next, !.threads = @ \cup {ff.next},
                      !.next = @ + 1]
  /\ FetchesFrame

\* Lines 536-539, 448-453, 336: asyncio.to_thread hands the next fetch to a
\* worker thread and the call awaits it; the statement is reached only
\* when the await before it is over.
FetchStart ==
  /\ ff.next \in 1..NumFetches
  /\ ff.awaited = 0
  /\ ff' = [ff EXCEPT !.awaited = ff.next, !.threads = @ \cup {ff.next},
                      !.next = @ + 1]
  /\ FetchesFrame

\* The thread of the awaited fetch returns its result or raises: the await
\* is over and the thread is gone.
FetchEnds ==
  /\ ff.awaited # 0
  /\ \E how \in {"returned", "raised"} :
       ff' = [ff EXCEPT !.awaited = 0, !.threads = @ \ {ff.awaited},
                        !.log = Append(@, how)]
  /\ FetchesFrame

\* Lines 536-540: the 15 seconds of wait_for pass before the thread of a
\* feed's fetch is through; the await raises TimeoutError, and the thread,
\* which cannot be cancelled, goes on with its request.
FetchTimesOut ==
  /\ ff.awaited # 0
  /\ FetchKind(ff.awaited) = "feed"
  /\ ff' = [ff EXCEPT !.awaited = 0, !.abandoned = @ \cup {ff.awaited},
                      !.log = Append(@, "timeout")]
  /\ FetchesFrame

\* The thread of an abandoned fetch comes to its end; what it returns or
\* raises is dropped.
StrayFetchEnds ==
  /\ \E t \in ff.threads \ {ff.awaited} :
       ff' = [ff EXCEPT !.threads = @ \ {t}]
  /\ FetchesFrame

(***************************************************************************)
(* app/main.py: the two triggers of a scan, the scheduler's job and        *)
(* /scan_now, on one event loop                                            *)
(***************************************************************************)

\* schedule_jobs, lines 1080-1087: the cron trigger fires and the
\* scheduler's job calls run_radar_once (slot 1); the scheduler starts no
\* second instance of its job while one is running, and nothing looks at
\* a call that /scan_now started.
StartTimerScan ==
  /\ started < MaxRuns
  /\ run[1].pc \in Terminal
  /\ Turn(1)
  /\ run' = [run EXCEPT ![1] = EntryRun(started + 1, clock)]
  /\ started' = started + 1
  /\ UNCHANGED <<settings, scan_state, area_cache, sink>>
  /\ UNCHANGED <<storageVars, scoreVars, tenantVars, chatVars, companyVars, lockVars, webVars, fetchVars, matchVars, flowVars>>

\* handle_scan_now, lines 781-784: the handler calls run_radar_once
\* (slot 2) whatever else is running.
StartScanNow ==
  /\ started < MaxRuns
  /\ run[2].pc \in Terminal
  /\ Turn(2)
  /\ run' = [run EXCEPT ![2] = EntryRun(started + 1, clock)]
  /\ started' = started + 1
  /\ UNCHANGED <<settings, scan_state, area_cache, sink>>
  /\ UNCHANGED <<storageVars, scoreVars, tenantVars, chatVars, companyVars, lockVars, webVars, fetchVars, matchVars, flowVars>>

\* A step of call r when the feeds are the only source enabled.
OverlapStep(r) ==
  \/ RssFetchFail(r) \/ RssFetchOk(r) \/ RssFetchMalformed(r)
  \/ RssFeedEnd(r) \/ RssItem(r)
  \/ RssSendOk(r) \/ RssSendFail(r)
  \/ SelectWebSearch(r)
  \/ JobsDisabled(r)


(***************************************************************************)
(* The tenant's questionnaire and the matching of listings: the gateway    *)
(***************************************************************************)

\* handle_tenant_matches: storage.list_listings(limit=50) and scored[:5]
LISTINGS_LIMIT == 50
TOP_MATCHES == 5

\* The listings table holds at most this many rows here.
MaxListings == 6

\* getTenantProfile(chatId): the chat's row (None: no row)
get_tenant_profile(profiles, chat_id) == profiles[chat_id]

\* upsertTenantProfile(chatId, profile): the chat's row becomes the profile
upsert_tenant_profile(profiles, chat_id, profile) ==
  [profiles EXCEPT ![chat_id] = Some(profile)]

\* listListings(limit): the first rows of the table, at most limit of them
list_listings(rows, limit) == SubSeq(rows, 1, Min2(limit, Len(rows)))

\* TENANT_FLOW_STEPS collects these keys; a key not collected yet reads as
\* None, an empty text or 0 (dict.get of a missing key).
NoData ==
  [budget_min |-> None, budget_max |-> None, district |-> <<>>, move_in |-> <<>>,
   property_type |-> <<>>, occupants |-> 0, pets |-> <<>>, parking |-> <<>>]

(***************************************************************************)
(* /tenant_matches                                                         *)
(***************************************************************************)

\* score, reasons = tenant_match_score(profile, dict(listing));
\* scored.append((score, reasons, dict(listing)))
ScoredListing(profile, listing) ==
  LET result == tenant_match_score(profile, listing)
  IN [score |-> result.score, reasons |-> result.reasons, listing |-> listing]

ScoreListings(profile, listings) ==
  [k \in 1..Len(listings) |-> ScoredListing(profile, listings[k])]

\* list.sort is stable: with reverse=True an entry goes behind the entries
\* of the same score that came before it
InsertScored(sorted, entry) ==
  LET n == Cardinality({k \in 1..Len(sorted) : sorted[k].score >= entry.score})
  IN SubSeq(sorted, 1, n) \o <<entry>> \o SubSeq(sorted, n + 1, Len(sorted))

RECURSIVE SortByScore(_)
SortByScore(scored) ==
  IF scored = <<>> THEN <<>>
  ELSE InsertScored(SortByScore(SubSeq(scored, 1, Len(scored) - 1)), scored[Len(scored)])

SortByScoreAscending(scored) ==
  LET sorted == SortByScore(scored)
  IN [k \in 1..Len(sorted) |-> sorted[Len(sorted) + 1 - k]]

\* scored.sort(key=lambda item: item[0], reverse=True)
RankListings(scored) == SortByScore(scored)

\* top = scored[:5]
TopMatches(profile, listings) ==
  LET ranked == RankListings(ScoreListings(profile, listings))
  IN SubSeq(ranked, 1, Min2(TOP_MATCHES, Len(ranked)))

MatchProfiles ==
  { [NoData EXCEPT !.budget_min = Some(100), !.budget_max = Some(200),
                   !.district = <<1040, 1083, 1084, 1072, 1090, 1099>> (* Алматы *)],
    [NoData EXCEPT !.district = <<1040, 1083, 1084, 1072, 1090, 1099, 44, 32, 1041, 1086, 1089, 1090, 1072, 1085, 1076, 1099, 1082, 1089, 1082, 1080, 1081, 32, 1088, 1072, 1081, 1086, 1085>> (* Алматы, Бостандыкский район *)] }

MatchListings ==
  { NoListing,
    [NoListing EXCEPT !.price = Some(150)],
    [NoListing EXCEPT !.price = Some(150), !.district = <<1072, 1083, 1084, 1072, 1090, 1099>> (* алматы *)] }

ListingTables ==
  UNION { [1..n -> MatchListings] : n \in 0..MaxListings }

MatchesIdle ==
  tm = [phase |-> "idle", chat |-> 0, rows |-> <<>>, top |-> <<>>,
        shown |-> <<>>, notes |-> <<>>]

MatchesInit ==
  \E rows \in ListingTables :
    tm = [phase |-> "idle", chat |-> 0, rows |-> rows, top |-> <<>>,
          shown |-> <<>>, notes |-> <<>>]

\* await message.answer(...) of a handler's only reply: sent, or the call
\* raises and the handler ends there
TmReply(c, note, ok) ==
  tm' = [tm EXCEPT !.chat = c,
                   !.phase = IF ok THEN "done" ELSE "raised",
                   !.notes = IF ok THEN <<note>> ELSE <<>>]

\* if not profile: "Сначала заполните анкету через /tenant."
TmNoProfile(c) ==
  /\ tm.phase = "idle"
  /\ get_tenant_profile(tenant_profiles, c) = None
  /\ \E ok \in BOOLEAN : TmReply(c, "no_profile", ok)
  /\ UNCHANGED <<tenant_flows, tenant_profiles, tf_last, handled>>
  /\ UNCHANGED <<storageVars, scoreVars, tenantVars, radarVars, chatVars, companyVars, lockVars, webVars, fetchVars>>

\* if not listings: "Пока нет объявлений для подбора. Можно расширить критерии: ..."
TmNoListings(c) ==
  /\ tm.phase = "idle"
  /\ get_tenant_profile(tenant_profiles, c) # None
  /\ list_listings(tm.rows, LISTINGS_LIMIT) = <<>>
  /\ \E ok \in BOOLEAN : TmReply(c, "no_listings", ok)
  /\ UNCHANGED <<tenant_flows, tenant_profiles, tf_last, handled>>
  /\ UNCHANGED <<storageVars, scoreVars, tenantVars, radarVars, chatVars, companyVars, lockVars, webVars, fetchVars>>

\* if not top or top[0][0] == 0: "Не нашел точных совпадений. Могу расширить параметры: ..."
TmNoMatch(c) ==
  /\ tm.phase = "idle"
  /\ get_tenant_profile(tenant_profiles, c) # None
  /\ LET listings == list_listings(tm.rows, LISTINGS_LIMIT)
         top == TopMatches(get_tenant_profile(tenant_profiles, c)[1], listings)
     IN /\ listings # <<>>
        /\ top = <<>> \/ top[1].score = 0
  /\ \E ok \in BOOLEAN : TmReply(c, "no_match", ok)
  /\ UNCHANGED <<tenant_flows, tenant_profiles, tf_last, handled>>
  /\ UNCHANGED <<storageVars, scoreVars, tenantVars, radarVars, chatVars, companyVars, lockVars, webVars, fetchVars>>

\* for score, reasons, listing in top: the loop is entered
TmRank(c) ==
  /\ tm.phase = "idle"
  /\ get_tenant_profile(tenant_profiles, c) # None
  /\ LET listings == list_listings(tm.rows, LISTINGS_LIMIT)
         top == TopMatches(get_tenant_profile(tenant_profiles, c)[1], listings)
     IN /\ listings # <<>>
        /\ top # <<>> /\ top[1].score # 0
        /\ tm' = [tm EXCEPT !.chat = c, !.phase = "sending", !.top = top]
  /\ UNCHANGED <<tenant_flows, tenant_profiles, tf_last, handled>>
  /\ UNCHANGED <<storageVars, scoreVars, tenantVars, radarVars, chatVars, companyVars, lockVars, webVars, fetchVars>>

\* await message.answer(format_listing(listing, score=score, reasons=reasons), ...)
TmSend ==
  /\ tm.phase = "sending"
  /\ LET shown == Append(tm.shown, tm.top[Len(tm.shown) + 1])
     IN tm' = [tm EXCEPT !.shown = shown,
                         !.phase = IF Len(shown) = Len(tm.top) THEN "done" ELSE "sending"]
  /\ UNCHANGED <<tenant_flows, tenant_profiles, tf_last, handled>>
  /\ UNCHANGED <<storageVars, scoreVars, tenantVars, radarVars, chatVars, companyVars, lockVars, webVars, fetchVars>>

\* message.answer raises inside the loop: the exception leaves the handler
TmSendFails ==
  /\ tm.phase = "sending"
  /\ tm' = [tm EXCEPT !.phase = "raised"]
  /\ UNCHANGED <<tenant_flows, tenant_profiles, tf_last, handled>>
  /\ UNCHANGED <<storageVars, scoreVars, tenantVars, radarVars, chatVars, companyVars, lockVars, webVars, fetchVars>>

\* What the gateway holds when /tenant_matches arrives: chat 1 with no
\* profile or one of two, chat 2 with none.
StoredProfiles ==
  { [c \in Chats |-> IF c = 1 THEN row ELSE None] :
      row \in {None} \cup {Some(p) : p \in MatchProfiles} }

(***************************************************************************)
(* app/utils.py: what the questionnaire reads out of an answer             *)
(***************************************************************************)

\* str.strip() without arguments and \s: the whitespace the texts here can hold
Whitespace == {9, 10, 11, 12, 13, 32}
\* \d, for the ASCII digits the texts here hold
IsDigit(c) == c >= 48 /\ c <= 57

RECURSIVE LStrip(_)
LStrip(text) ==
  IF text # <<>> /\ Head(text) \in Whitespace THEN LStrip(Tail(text)) ELSE text

RECURSIVE RStrip(_)
RStrip(text) ==
  IF text # <<>> /\ text[Len(text)] \in Whitespace
  THEN RStrip(SubSeq(text, 1, Len(text) - 1)) ELSE text

StripWhitespace(text) == RStrip(LStrip(text))

RECURSIVE ToInt(_)
ToInt(digits) ==
  IF digits = <<>> THEN 0
  ELSE 10 * ToInt(SubSeq(digits, 1, Len(digits) - 1)) + (digits[Len(digits)] - 48)

\* where the match that starts at i ends: the last of the characters from i
\* on that all satisfy Part
MatchEnd(text, i, Part(_)) ==
  CHOOSE j \in i..Len(text) :
    /\ \A k \in i..j : Part(text[k])
    /\ j = Len(text) \/ ~Part(text[j + 1])

\* re.findall(r"\d[\d\s]*", normalized)
RECURSIVE FindNumbers(_, _)
FindNumbers(text, i) ==
  IF i > Len(text) THEN <<>>
  ELSE IF IsDigit(text[i])
  THEN LET j == MatchEnd(text, i, LAMBDA c : IsDigit(c) \/ c \in Whitespace)
       IN <<SubSeq(text, i, j)>> \o FindNumbers(text, j + 1)
  ELSE FindNumbers(text, i + 1)

\* int(value.replace(" ", "")): int() passes over whitespace around the
\* digits and raises ValueError on whitespace between them (None here)
IntOfMatch(value) ==
  LET digits == StripWhitespace(SelectSeq(value, LAMBDA c : c # 32))
  IN IF \A k \in 1..Len(digits) : IsDigit(digits[k]) THEN Some(ToInt(digits)) ELSE None

NoBudget == [raised |-> FALSE, budget_min |-> None, budget_max |-> None]
Budget(budget_min, budget_max) ==
  [raised |-> FALSE, budget_min |-> budget_min, budget_max |-> budget_max]

\* parse_budget(text); raised: the ValueError of int() leaves the function
parse_budget(text) ==
  IF text = <<>> THEN NoBudget
  ELSE LET normalized == Lower(text)
           found == FindNumbers(normalized, 1)
           numbers == [k \in 1..Len(found) |-> IntOfMatch(found[k])]
       IN IF \E k \in 1..Len(numbers) : numbers[k] = None
          THEN [raised |-> TRUE, budget_min |-> None, budget_max |-> None]
          ELSE IF numbers = <<>> THEN NoBudget
          ELSE IF Contains(<<1076, 1086>> (* до *), normalized) THEN Budget(None, numbers[1])
          ELSE IF Contains(<<1086, 1090>> (* от *), normalized) THEN Budget(numbers[1], None)
          ELSE IF Len(numbers) >= 2
          THEN Budget(Some(Min2(numbers[1][1], numbers[2][1])),
                      Some(Max2(numbers[1][1], numbers[2][1])))
          ELSE Budget(None, numbers[1])

YES_VALUES == { <<1076, 1072>> (* да *), <<121, 101, 115>> (* yes *), <<121>> (* y *), <<1072, 1075, 1072>> (* ага *), <<1077, 1089, 1090, 1100>> (* есть *), <<1085, 1091, 1078, 1085, 1086>> (* нужно *) }
NO_VALUES == { <<1085, 1077, 1090>> (* нет *), <<110, 111>> (* no *), <<110>> (* n *), <<1085, 1077, 32, 1085, 1091, 1078, 1085, 1086>> (* не нужно *), <<1085, 1077, 32, 1085, 1072, 1076, 1086>> (* не надо *) }

\* parse_yes_no(text): Some(TRUE), Some(FALSE) or None
parse_yes_no(text) ==
  IF text = <<>> THEN None
  ELSE LET normalized == Lower(StripWhitespace(text))
       IN IF normalized \in YES_VALUES THEN Some(TRUE)
          ELSE IF normalized \in NO_VALUES THEN Some(FALSE)
          ELSE None

\* re.search(r"\d+", text): the first run of digits, None without one
FirstDigits(text) ==
  IF \E i \in 1..Len(text) : IsDigit(text[i])
  THEN LET i == CHOOSE k \in 1..Len(text) :
                  IsDigit(text[k]) /\ \A h \in 1..(k - 1) : ~IsDigit(text[h])
       IN Some(SubSeq(text, i, MatchEnd(text, i, IsDigit)))
  ELSE None

\* parse_positive_int(text)
parse_positive_int(text) ==
  IF text = <<>> \/ FirstDigits(text) = None THEN None
  ELSE LET value == ToInt(FirstDigits(text)[1])
       IN IF value > 0 THEN Some(value) ELSE None

(***************************************************************************)
(* app/main.py: the questionnaire                                          *)
(***************************************************************************)

TENANT_FLOW_STEPS ==
  <<"budget", "district", "move_in", "property_type", "occupants", "pets", "parking">>

CANCEL_WORDS == { <<1086, 1090, 1084, 1077, 1085, 1072>> (* отмена *), <<99, 97, 110, 99, 101, 108>> (* cancel *), <<115, 116, 111, 112>> (* stop *) }

ANSWER_YES == <<1076, 1072>> (* да *)
ANSWER_NO == <<1085, 1077, 1090>> (* нет *)

\* {"step_index": 0, "data": {}}
NewFlow == [step_index |-> 0, data |-> NoData]

\* what a handler leaves behind: tenant_flows, the gateway's profiles and
\* what it did
Outcome(flows, profiles, what) ==
  [flows |-> flows, profiles |-> profiles, what |-> what]

\* prompt_tenant_step that stores what has been collected so far before
\* every question
prompt_tenant_step_saves_partial(flows, profiles, chat_id) ==
  IF flows[chat_id] = None THEN Outcome(flows, profiles, "no_flow")
  ELSE LET flow == flows[chat_id][1]
           saved == upsert_tenant_profile(profiles, chat_id, flow.data)
       IN IF flow.step_index >= Len(TENANT_FLOW_STEPS)
          THEN Outcome([flows EXCEPT ![chat_id] = None], saved, "completed")
          ELSE Outcome(flows, saved, "asked")

\* prompt_tenant_step that leaves the finished flow in tenant_flows
prompt_tenant_step_keeps_flow(flows, profiles, chat_id) ==
  IF flows[chat_id] = None THEN Outcome(flows, profiles, "no_flow")
  ELSE LET flow == flows[chat_id][1]
       IN IF flow.step_index >= Len(TENANT_FLOW_STEPS)
          THEN Outcome(flows, upsert_tenant_profile(profiles, chat_id, flow.data),
                       "completed")
          ELSE Outcome(flows, profiles, "asked")

\* prompt_tenant_step(message, chat_id)
prompt_tenant_step(flows, profiles, chat_id) ==
  IF flows[chat_id] = None THEN Outcome(flows, profiles, "no_flow")
  ELSE LET flow == flows[chat_id][1]
       IN IF flow.step_index >= Len(TENANT_FLOW_STEPS)
          THEN Outcome([flows EXCEPT ![chat_id] = None],
                       upsert_tenant_profile(profiles, chat_id, flow.data),
                       "completed")
          ELSE Outcome(flows, profiles, "asked")

\* flow["data"].update(updates)
UpdateData(data, updates) ==
  [key \in DOMAIN data |-> IF key \in DOMAIN updates THEN updates[key] ELSE data[key]]

\* update_tenant_flow with one flow shared by the chats that are in
\* tenant_flows
update_tenant_flow_shared(flows, chat_id, updates) ==
  [c \in DOMAIN flows |->
     IF c = chat_id \/ flows[c] # None
     THEN LET flow == IF flows[c] = None THEN NewFlow ELSE flows[c][1]
          IN Some([step_index |-> flow.step_index + 1,
                   data |-> UpdateData(flow.data, updates)])
     ELSE flows[c]]

\* update_tenant_flow(chat_id, updates)
update_tenant_flow(flows, chat_id, updates) ==
  LET flow == IF flows[chat_id] = None THEN NewFlow ELSE flows[chat_id][1]
  IN [flows EXCEPT ![chat_id] =
        Some([step_index |-> flow.step_index + 1,
              data |-> UpdateData(flow.data, updates)])]

\* the branches of handle_tenant_input with pets and parking taken as
\* they were typed
StepUpdatesAsTyped(step_key, text) ==
  IF step_key = "budget"
  THEN LET budget == parse_budget(text)
       IN IF budget.budget_min = None /\ budget.budget_max = None THEN None
          ELSE Some([budget_min |-> budget.budget_min, budget_max |-> budget.budget_max])
  ELSE IF step_key = "occupants"
  THEN LET occupants == parse_positive_int(text)
       IN IF occupants = None THEN None ELSE Some([occupants |-> occupants[1]])
  ELSE Some([key \in {step_key} |-> text])

\* the branch of handle_tenant_input for the step the flow stands at:
\* the updates of an accepted answer (Some), None for a rejected one
StepUpdates(step_key, text) ==
  IF step_key = "budget"
  THEN LET budget == parse_budget(text)
       IN IF budget.budget_min = None /\ budget.budget_max = None THEN None
          ELSE Some([budget_min |-> budget.budget_min, budget_max |-> budget.budget_max])
  ELSE IF step_key = "occupants"
  THEN LET occupants == parse_positive_int(text)
       IN IF occupants = None THEN None ELSE Some([occupants |-> occupants[1]])
  ELSE IF step_key \in {"pets", "parking"}
  THEN LET value == parse_yes_no(text)
       IN IF value = None THEN None
          ELSE Some([key \in {step_key} |-> IF value[1] THEN ANSWER_YES ELSE ANSWER_NO])
  ELSE Some([key \in {step_key} |-> text])

\* handle_tenant_input(message), message.text given as an optional text
handle_tenant_input(flows, profiles, chat_id, message_text) ==
  LET text == StripWhitespace(IF message_text = None THEN <<>> ELSE message_text[1])
  IN IF Lower(text) \in CANCEL_WORDS
     THEN Outcome([flows EXCEPT ![chat_id] = None], profiles, "cancelled")
     ELSE IF flows[chat_id] = None THEN Outcome(flows, profiles, "no_flow")
     ELSE LET flow == flows[chat_id][1]
          IN IF flow.step_index >= Len(TENANT_FLOW_STEPS)
             THEN prompt_tenant_step(flows, profiles, chat_id)
             ELSE LET step_key == TENANT_FLOW_STEPS[flow.step_index + 1]
                  IN IF step_key = "budget" /\ parse_budget(text).raised
                     THEN Outcome(flows, profiles, "raised")
                     ELSE IF StepUpdates(step_key, text) = None
                     THEN Outcome(flows, profiles, "rejected")
                     ELSE prompt_tenant_step(
                            update_tenant_flow(flows, chat_id, StepUpdates(step_key, text)[1]),
                            profiles, chat_id)

(***************************************************************************)
(* app/main.py: the handlers of build_dispatcher, in the order they are    *)
(* registered; a message goes to the first one whose filter passes         *)
(***************************************************************************)

Handler(name, command) == [name |-> name, command |-> command]

Handlers ==
  << Handler("handle_start", Some(<<47, 115, 116, 97, 114, 116>> (* /start *))),
     Handler("handle_tenant_start", Some(<<47, 116, 101, 110, 97, 110, 116>> (* /tenant *))),
     Handler("handle_tenant_profile", Some(<<47, 116, 101, 110, 97, 110, 116, 95, 112, 114, 111, 102, 105, 108, 101>> (* /tenant_profile *))),
     Handler("handle_tenant_matches", Some(<<47, 116, 101, 110, 97, 110, 116, 95, 109, 97, 116, 99, 104, 101, 115>> (* /tenant_matches *))),
     Handler("handle_tenant_contact", Some(<<47, 116, 101, 110, 97, 110, 116, 95, 99, 111, 110, 116, 97, 99, 116>> (* /tenant_contact *))),
     Handler("handle_tenant_flow_message", None),
     Handler("handle_scan_now", Some(<<47, 115, 99, 97, 110, 95, 110, 111, 119>> (* /scan_now *))),
     Handler("handle_radar", Some(<<47, 114, 97, 100, 97, 114>> (* /radar *))),
     Handler("handle_hot", Some(<<47, 104, 111, 116>> (* /hot *))) >>

\* the command a text starts with: its characters up to the first whitespace
FirstWord(text) ==
  IF \E i \in 1..Len(text) : text[i] \in Whitespace
  THEN SubSeq(text, 1, (CHOOSE i \in 1..Len(text) :
                          text[i] \in Whitespace /\ \A h \in 1..(i - 1) : text[h] \notin Whitespace) - 1)
  ELSE text

\* Command(name) passes a message whose text starts with the command;
\* a handler registered without a filter takes every message
Passes(handler, message_text) ==
  \/ handler.command = None
  \/ message_text # None /\ FirstWord(message_text[1]) = handler.command[1]

\* the handler a message goes to
Dispatch(message_text) ==
  LET k == CHOOSE i \in 1..Len(Handlers) :
             /\ Passes(Handlers[i], message_text)
             /\ \A h \in 1..(i - 1) : ~Passes(Handlers[h], message_text)
  IN Handlers[k].name

\* The messages a chat sends: message.text, None for a message without text
MessageTexts ==
  { Some(<<1076, 1086, 32, 50, 48, 48>> (* до 200 *)), Some(<<1044, 1072>> (* Да *)), Some(<<78>> (* N *)),
    Some(<<67, 97, 110, 99, 101, 108>> (* Cancel *)), Some(<<47, 115, 99, 97, 110, 95, 110, 111, 119>> (* /scan_now *)), Some(<<47, 116, 101, 110, 97, 110, 116>> (* /tenant *)) }

\* The dispatcher takes at most this many messages.
MaxMessages == 9

NoMessage == [chat |-> 0, text |-> None, handler |-> "", what |-> ""]

FlowIdle ==
  /\ tenant_flows = [c \in Chats |-> None]
  /\ tenant_profiles = [c \in Chats |-> None]
  /\ tf_last = NoMessage
  /\ handled = 0

\* A profile an earlier questionnaire of the chat left in the store.
EarlierProfile ==
  [budget_min |-> None, budget_max |-> Some(200), district |-> <<1076, 1086, 32, 50, 48, 48>> (* до 200 *),
   move_in |-> <<1076, 1086, 32, 50, 48, 48>> (* до 200 *), property_type |-> <<1076, 1086, 32, 50, 48, 48>> (* до 200 *), occupants |-> 200,
   pets |-> ANSWER_YES, parking |-> ANSWER_YES]

FlowInit ==
  /\ tenant_flows = [c \in Chats |-> None]
  /\ tenant_profiles \in
       { [c \in Chats |-> None],
         [c \in Chats |-> IF c = 1 THEN Some(EarlierProfile) ELSE None] }
  /\ tf_last = NoMessage
  /\ handled = 0

Took(c, message_text, handler, what) ==
  /\ tf_last' = [chat |-> c, text |-> message_text, handler |-> handler, what |-> what]
  /\ handled' = handled + 1

\* handle_tenant_start(message)
TenantStart(c, message_text) ==
  /\ handled < MaxMessages
  /\ Dispatch(message_text) = "handle_tenant_start"
  /\ tenant_flows' = [tenant_flows EXCEPT ![c] = Some(NewFlow)]
  /\ Took(c, message_text, "handle_tenant_start", "started")
  /\ UNCHANGED <<tenant_profiles, tm>>
  /\ UNCHANGED <<storageVars, scoreVars, tenantVars, radarVars, chatVars, companyVars, lockVars, webVars, fetchVars>>

\* handle_tenant_flow_message(message)
TenantFlowMessage(c, message_text) ==
  /\ handled < MaxMessages
  /\ Dispatch(message_text) = "handle_tenant_flow_message"
  /\ LET out ==
           IF tenant_flows[c] = None THEN Outcome(tenant_flows, tenant_profiles, "not_in_flows")
           ELSE IF message_text # None /\ message_text[1] # <<>> /\ message_text[1][1] = 47
           THEN Outcome(tenant_flows, tenant_profiles, "command_text")
           ELSE handle_tenant_input(tenant_flows, tenant_profiles, c, message_text)
     IN /\ tenant_flows' = out.flows
        /\ tenant_profiles' = out.profiles
        /\ Took(c, message_text, "handle_tenant_flow_message", out.what)
  /\ UNCHANGED tm
  /\ UNCHANGED <<storageVars, scoreVars, tenantVars, radarVars, chatVars, companyVars, lockVars, webVars, fetchVars>>
(***************************************************************************)
(* Claims about the keyword scorer (checked under SpecScore)               *)
(***************************************************************************)

\* The markers of the text that are present, each worth 10 points.
MarkersPresent(text) ==
  {m \in {"region", "vacancy", "tender", "investment"} :
     \/ m = "region" /\ HasRegion(text)
     \/ m = "vacancy" /\ HasVacancy(text)
     \/ m = "tender" /\ HasTender(text)
     \/ m = "investment" /\ HasInvestment(text)}

\* C7: for every (title, summary), demand_score returns an integer in
\* [5, 100]: min(60, 10 * the number of matching strong-signal keywords) plus
\* 10 for each of the four markers present, replaced by 5 when that total is
\* 0, and never above 100.
C7_DemandScoreRange ==
  sc_phase = "scored" =>
    LET text == normalize(TitleSummary(sc_title, sc_summary))
        strong == IF 10 * StrongMatches(text) > 60 THEN 60 ELSE 10 * StrongMatches(text)
        total == strong + 10 * Cardinality(MarkersPresent(text))
    IN /\ sc_score \in 5..100
       /\ sc_score = (IF total = 0 THEN 5 ELSE total)

\* C7 witness: a scored text with more than six strong-signal keywords, where
\* the cap of 60 decides the score.
C7_Witness ==
  /\ sc_phase = "scored"
  /\ StrongMatches(normalize(TitleSummary(sc_title, sc_summary))) > 6
  /\ sc_score = 80


\* The text of the scenario of C14 and C15.
ScenarioText == <<1054, 1090, 1082, 1088, 1099, 1090, 1080, 1077, 32, 1085, 1086, 1074, 1086, 1075, 1086, 32, 1088, 1072, 1089, 1087, 1088, 1077, 1076, 1077, 1083, 1080, 1090, 1077, 1083, 1100, 1085, 1086, 1075, 1086, 32, 1094, 1077, 1085, 1090, 1088, 1072, 32, 1074, 32, 1040, 1083, 1084, 1072, 1090, 1099>> (* Открытие нового распределительного центра в Алматы *)

ScenarioScored ==
  /\ sc_phase = "scored"
  /\ sc_title = ScenarioText
  /\ sc_summary = <<>>

\* C14: detect_segment applied to the scenario text (empty summary) returns
\* the segment Distribution.
C14_ScenarioSegment ==
  ScenarioScored => sc_segment = "Distribution"

\* C15: demand_score of the scenario text is at least 20: the text contains
\* "алматы", which gives the regional bonus of 10, and at least one
\* strong-signal keyword, which gives at least 10.
C15_ScenarioScore ==
  ScenarioScored =>
    LET text == normalize(TitleSummary(sc_title, sc_summary))
    IN /\ sc_score >= 20
       /\ Contains(<<1072, 1083, 1084, 1072, 1090, 1099>> (* алматы *), text)
       /\ \E k \in 1..Len(REGION_KEYWORDS) : REGION_KEYWORDS[k] = <<1072, 1083, 1084, 1072, 1090, 1099>> (* алматы *)
       /\ \E k \in 1..Len(STRONG_SIGNAL_KEYWORDS) : Contains(STRONG_SIGNAL_KEYWORDS[k], text)
       /\ sc_score >= 10 + 10 * Min2(6, StrongMatches(text))

\* C15 witness: the scenario text has been scored, with the regional bonus
\* and one strong-signal keyword: 20.
C15_Witness ==
  /\ ScenarioScored
  /\ sc_score = 20

\* The table orders C18 states.
ClaimedSegmentOrder ==
  <<"E-COM", "3PL", "FMCG", "Distribution", "Warehouse Real Estate",
    "Auto/Spec Tech", "Industrial", "Cold Chain">>

ClaimedTimingOrder ==
  << <<48, 8211, 51, 32, 1084, 1077, 1089>> (* 0–3 мес *), <<48, 8211, 54, 32, 1084, 1077, 1089>> (* 0–6 мес *), <<51, 8211, 49, 50, 32, 1084, 1077, 1089>> (* 3–12 мес *), <<54, 8211, 50, 52, 32, 1084, 1077, 1089>> (* 6–24 мес *) >>

\* The entries of a table one of whose keywords occurs in text.
EntriesMatching(table, text) ==
  {k \in 1..Len(table) : \E w \in 1..Len(table[k].keywords) : Contains(table[k].keywords[w], text)}

\* C18: detect_segment and detect_timing return the entry that comes first
\* in the fixed table order (E-COM, 3PL, FMCG, Distribution, Warehouse Real
\* Estate, Auto/Spec Tech, Industrial, Cold Chain; 0-3, 0-6, 3-12, 6-24
\* months) among the entries the text matches, and Other and 3-12 months
\* when it matches none.
C18_FirstMatchWins ==
  /\ [k \in 1..Len(SEGMENT_KEYWORDS) |-> SEGMENT_KEYWORDS[k].segment] = ClaimedSegmentOrder
  /\ [k \in 1..Len(TIMING_RULES) |-> TIMING_RULES[k].timing] = ClaimedTimingOrder
  /\ sc_phase = "scored" =>
       LET text == normalize(TitleSummary(sc_title, sc_summary))
           segments == EntriesMatching(SEGMENT_KEYWORDS, text)
           timings == EntriesMatching(TIMING_RULES, text)
       IN /\ IF segments = {} THEN sc_segment = "Other"
             ELSE \E k \in segments :
                    /\ \A j \in segments : k <= j
                    /\ sc_segment = ClaimedSegmentOrder[k]
          /\ IF timings = {} THEN sc_timing = <<51, 8211, 49, 50, 32, 1084, 1077, 1089>> (* 3–12 мес *)
             ELSE \E k \in timings :
                    /\ \A j \in timings : k <= j
                    /\ sc_timing = ClaimedTimingOrder[k]

\* C18 witness: a scored text with keywords of Industrial and of Cold Chain,
\* and of the first two timing rules: Industrial and 0-3 months.
C18_Witness ==
  /\ sc_phase = "scored"
  /\ LET text == normalize(TitleSummary(sc_title, sc_summary))
     IN /\ EntriesMatching(SEGMENT_KEYWORDS, text) = {7, 8}
        /\ {1, 2} \subseteq EntriesMatching(TIMING_RULES, text)
  /\ sc_segment = "Industrial"
  /\ sc_timing = ClaimedTimingOrder[1]
(***************************************************************************)
(* Claims about the storage gateway (checked under SpecStorage)            *)
(***************************************************************************)

\* No two rows of `leads` hold the same URL.
UniqueLeadUrls ==
  \A i, j \in 1..Len(leads) :
     (i # j /\ leads[i].url # NULL) => leads[i].url # leads[j].url

\* A step that is a save_lead call with a non-empty URL.
SaveLeadCall ==
  /\ st_last'.n = st_last.n + 1
  /\ st_last'.op = "save_lead"
  /\ st_last'.url \notin {"", NULL}

\* C1: after any sequence of save_lead calls no two stored leads share a
\* URL: the first save_lead with a given non-empty URL returns True and
\* inserts one row; every later save_lead with that URL returns False,
\* inserts nothing and leaves the stored lead's fields unchanged.
C1_SaveLeadIdempotent ==
  /\ []UniqueLeadUrls
  /\ [][SaveLeadCall =>
         IF \E i \in 1..Len(leads) : leads[i].url = st_last'.url
           THEN st_last'.result = FALSE /\ leads' = leads
         ELSE /\ st_last'.result = TRUE
              /\ Len(leads') = Len(leads) + 1
              /\ SubSeq(leads', 1, Len(leads)) = leads
              /\ leads'[Len(leads')].url = st_last'.url]_vars

\* C1 witness: a save_lead that returned False for a URL whose stored row
\* differs from the lead handed in.
C1_Witness ==
  /\ st_last.op = "save_lead"
  /\ st_last.result = FALSE
  /\ st_last.url \notin {"", NULL}
  /\ \E i \in 1..Len(leads) :
       /\ leads[i].url = st_last.url
       /\ leads[i].demand_score # st_last.lead[1].demand_score

(***************************************************************************)
(* Claims about the tenant matcher (checked under SpecTenant)              *)
(***************************************************************************)

\* C9: for every tenant profile and every listing, tenant_match_score
\* returns a score >= 0, whichever of the pets and parking penalties (-5
\* each) apply.
C9_TenantScoreNonNegative ==
  tn_phase = "matched" => tn_result.score >= 0

\* C9 witness: both penalties apply and nothing else scores, so the raw sum
\* is -10 and the returned score is 0.
C9_Witness ==
  /\ tn_phase = "matched"
  /\ IsYes(tn_profile.pets) /\ ~tn_listing.pets_allowed
  /\ IsYes(tn_profile.parking) /\ ~tn_listing.parking
  /\ SumPoints(MatchSteps(tn_profile, tn_listing)) = -10
  /\ tn_result.score = 0


\* The case of C17: both budget bounds set, the price within them, the
\* same district up to case, and no property type, pets or parking wish in
\* the profile and no verification timestamp on the listing.
BudgetAndDistrictOnly ==
  /\ tn_profile.budget_min # None /\ tn_profile.budget_max # None
  /\ tn_listing.price # None
  /\ tn_profile.budget_min[1] <= tn_listing.price[1]
  /\ tn_listing.price[1] <= tn_profile.budget_max[1]
  /\ tn_profile.district # <<>>
  /\ Lower(tn_profile.district) = Lower(tn_listing.district)
  /\ tn_profile.property_type = <<>>
  /\ tn_profile.pets = <<>>
  /\ tn_profile.parking = <<>>
  /\ ~tn_listing.verified_at

\* C17: in that case tenant_match_score returns exactly 60 (35 for the
\* budget, 25 for the district) with exactly the reasons "в бюджете" and
\* "нужный район".
C17_BudgetAndDistrict ==
  (tn_phase = "matched" /\ BudgetAndDistrictOnly) =>
    /\ tn_result.score = 35 + 25
    /\ tn_result.reasons = << <<1074, 32, 1073, 1102, 1076, 1078, 1077, 1090, 1077>> (* в бюджете *), <<1085, 1091, 1078, 1085, 1099, 1081, 32, 1088, 1072, 1081, 1086, 1085>> (* нужный район *) >>

\* C17 witness: budget 100..200, price 200, district "Алматы" against
\* "алматы": 60 with the two reasons.
C17_Witness ==
  /\ tn_phase = "matched"
  /\ BudgetAndDistrictOnly
  /\ tn_listing.price = Some(200)
  /\ tn_profile.district # tn_listing.district
  /\ tn_result.score = 60
  /\ Len(tn_result.reasons) = 2
(***************************************************************************)
(* Claims about the scan: the seen-check and the relevance filter          *)
(***************************************************************************)

\* url has a row in `seen` / in `leads`.
Marked(url) == \E s \in seen : s.url = url
Stored(url) == \E k \in 1..Len(leads) : leads[k].url = url
Notified(url) == \E k \in 1..Len(sink) : sink[k].lead.url = url

\* Call r is about to visit the next item of a feed, of the web search, or
\* the next vacancy.
AtRssItem(r) ==
  /\ run[r].pc = "rss_item"
  /\ run[r].items # <<>>
  /\ run[r].collected < settings.max_items_per_run
AtYandexItem(r) ==
  /\ run[r].pc = "yx_item"
  /\ run[r].items # <<>>
  /\ run[r].yandex_items < run[r].remaining
AtVacancy(r) ==
  /\ run[r].pc = "hh_vac"
  /\ run[r].rest # <<>>
  /\ run[r].hh_items < run[r].remaining

\* The step skips its item at the seen-check: is_seen is the only call it
\* makes, storage and sink stay as they are, no send is awaited.
SkippedAtSeenCheck(r) ==
  /\ run'[r].calls = <<"is_seen">>
  /\ run'[r].pc = run[r].pc
  /\ run'[r].lead = NoLead
  /\ leads' = leads
  /\ seen' = seen
  /\ sink' = sink

\* C2: once a URL is marked seen, every later encounter of it by a scan, in
\* the feeds, the web search or the job board, in the same call or a later
\* one, stops at the seen-check: the relevance filter is not evaluated,
\* save_lead is not called, nothing is notified, and the phase's seen
\* counter counts the item.
C2_SeenUrlSkipped ==
  [][\A r \in Slots :
       /\ (AtRssItem(r) /\ Marked(Items[Head(run[r].items)].url))
            => (SkippedAtSeenCheck(r) /\ run'[r].rss_seen = run[r].rss_seen + 1)
       /\ (AtYandexItem(r) /\ Marked(Items[Head(run[r].items)].url))
            => (SkippedAtSeenCheck(r) /\ run'[r].yandex_seen = run[r].yandex_seen + 1)
       /\ (AtVacancy(r) /\ Marked(Vacancies[Head(run[r].rest)].url))
            => (SkippedAtSeenCheck(r) /\ run'[r].hh_seen = run[r].hh_seen + 1)
    ]_vars

\* A later call has met item 6, whose text passes the filter, under the URL
\* an earlier item without a regional keyword had marked: it stopped at the
\* seen-check and the URL has no lead.
C2_Witness ==
  \E r \in Slots :
    /\ run[r].nr = 2
    /\ run[r].pc = "rss_item"
    /\ run[r].item = 6
    /\ run[r].calls = <<"is_seen">>
    /\ Relevant[6]
    /\ Marked(Items[6].url)
    /\ ~Stored(Items[6].url)

\* The items whose title and summary hold no regional keyword.
NoRegionalKeyword ==
  [i \in ItemIds |->
     ~AnyKeyword(RELEVANCE_REGION_KEYWORDS,
                 Lower(TitleSummary(Items[i].title, Items[i].summary)))]

\* The step drops its item: the URL is marked seen, no lead is inserted, no
\* send is awaited, nothing is notified.
DroppedByFilter(r) ==
  /\ run'[r].calls = <<"is_seen", "is_relevant_lead", "mark_seen">>
  /\ \E s \in seen' : s.url = Items[Head(run[r].items)].url
  /\ leads' = leads
  /\ sink' = sink
  /\ run'[r].pc = run[r].pc
  /\ run'[r].lead = NoLead

\* C3: in the feeds and in the web search, an unseen item without a regional
\* keyword is marked seen and dropped; its URL, marked and without a lead,
\* stays so for ever, and no notification ever carries it.
C3_NoRegionDropped ==
  /\ [][\A r \in Slots :
          /\ (/\ AtRssItem(r) \/ AtYandexItem(r)
              /\ NoRegionalKeyword[Head(run[r].items)]
              /\ ~Marked(Items[Head(run[r].items)].url))
               => DroppedByFilter(r)
          /\ \A i \in ItemIds :
               (Marked(Items[i].url) /\ ~Stored(Items[i].url))
                 => (Marked(Items[i].url) /\ ~Stored(Items[i].url))'
       ]_vars
  /\ [](\A i \in ItemIds :
          (Marked(Items[i].url) /\ ~Stored(Items[i].url)) => ~Notified(Items[i].url))

\* A scan has just dropped item 7, which names a segment of the
\* allow-list (E-COM) and a region the filter does not know.
C3_Witness ==
  \E r \in Slots :
    /\ run[r].item = 7
    /\ NoRegionalKeyword[7]
    /\ detect_segment(Items[7].title, Items[7].summary) \in ALLOWED_SEGMENTS
    /\ run[r].calls = <<"is_seen", "is_relevant_lead", "mark_seen">>
    /\ Marked(Items[7].url)
    /\ ~Stored(Items[7].url)

(***************************************************************************)
(* Claims about the scan: the caps and the notifications                   *)
(***************************************************************************)

WebPcs == {"yx_fetch", "yx_item", "serp_fetch"}
JobPcs == {"hh_area", "hh_fallback", "hh_vac", "hh_detail", "hh_send", "hh_finish"}

\* The items a call has processed so far: `collected`, and the count of the
\* phase in progress, which the code adds to `collected` when the phase ends
\* (a call that a failed send ended in the job board never added hh_items).
Processed(rec) ==
  rec.collected
  + (IF rec.pc \in WebPcs THEN rec.yandex_items ELSE 0)
  + (IF rec.pc \in JobPcs \cup {"raised"} THEN rec.hh_items ELSE 0)

\* The same call of run_radar_once is alive before and after the step.
SameCall(r) == run[r].nr = run'[r].nr /\ run[r].pc \notin Terminal

\* C4: in a run with max_items_per_run >= 0, the items processed in the
\* feeds, the web search and the job board together never exceed
\* max_items_per_run, the report's `collected` is that number, and once the
\* cap is reached no phase of the run begins another item.
C4_ItemCap ==
  /\ [](settings.max_items_per_run >= 0 =>
          \A r \in Slots :
            /\ Processed(run[r]) <= settings.max_items_per_run
            /\ run[r].pc = "done" => Report(run[r]).collected = Processed(run[r]))
  /\ [][settings.max_items_per_run >= 0 =>
          \A r \in Slots :
            (SameCall(r) /\ Processed(run[r]) >= settings.max_items_per_run)
              => /\ Processed(run'[r]) = Processed(run[r])
                 /\ run'[r].item = run[r].item
                 /\ run'[r].vacancy = run[r].vacancy
       ]_vars

\* The cap is reached in the job board after the feeds took a part of it,
\* and a vacancy is left unvisited.
C4_Witness ==
  \E r \in Slots :
    /\ run[r].pc = "hh_vac"
    /\ run[r].rest # <<>>
    /\ run[r].collected > 0
    /\ run[r].hh_items > 0
    /\ Processed(run[r]) = settings.max_items_per_run

\* The notifications of call number nr that reached the sink.
Pushed(nr) == Cardinality({k \in 1..Len(sink) : sink[k].nr = nr})

\* The report's `sent` is the number of notifications pushed.
SentIsPushed ==
  \A r \in Slots :
    run[r].pc \notin {"idle", "raised"} => run[r].sent = Pushed(run[r].nr)

\* C5 as the spec words it: within one run the notifications pushed never
\* exceed max_send_per_run, whatever its value, and the report's `sent` is
\* their number.
C5_SendCapAnyValue ==
  /\ SentIsPushed
  /\ \A r \in Slots :
       run[r].pc # "idle" => Pushed(run[r].nr) <= settings.max_send_per_run

\* C5: within one run with max_send_per_run >= 0, the notifications pushed
\* to the sink, from the feeds and the job board together, never exceed
\* max_send_per_run, and the report's `sent` is their number; with a
\* negative max_send_per_run nothing is pushed.
C5_SendCap ==
  /\ SentIsPushed
  /\ \A r \in Slots :
       run[r].pc # "idle" =>
         Pushed(run[r].nr) <= Max2(0, settings.max_send_per_run)

\* A run has returned with the send cap reached, its `sent` the number of
\* its notifications, and a hot lead stored without a notification.
C5_Witness ==
  \E r \in Slots :
    /\ run[r].pc = "done"
    /\ settings.max_send_per_run > 0
    /\ Report(run[r]).sent = settings.max_send_per_run
    /\ Pushed(run[r].nr) = settings.max_send_per_run
    /\ \E k \in 1..Len(leads) :
         leads[k].demand_score >= 60 /\ ~Notified(leads[k].url)

SendPcs == {"rss_send", "hh_send"}

\* The row of `leads` that holds lead, inserted by the call's last save_lead.
InsertedLast(rows, lead) ==
  /\ rows # <<>>
  /\ rows[Len(rows)].url = lead.url
  /\ rows[Len(rows)].item = lead.item
  /\ rows[Len(rows)].source = lead.source
  /\ rows[Len(rows)].demand_score = lead.demand_score

\* C6: a notification is pushed only for a lead that save_lead inserted in
\* this run, in the very pass that awaits the send, and whose demand_score
\* is at least 60: a send is awaited only right after such an insert, the
\* sink grows only by the lead of an awaited send, every notified lead is
\* stored with a score of 60 or more, and no URL is notified twice.
C6_NotifyOnlyNewHot ==
  /\ [][\A r \in Slots :
          /\ (run'[r].pc \in SendPcs /\ run[r].pc \notin SendPcs)
               => /\ run'[r].lead # NoLead
                  /\ Len(leads') = Len(leads) + 1
                  /\ ~Stored(run'[r].lead[1].url)
                  /\ InsertedLast(leads', run'[r].lead[1])
                  /\ run'[r].lead[1].demand_score >= 60
                  /\ "save_lead" \in {run'[r].calls[k] : k \in 1..Len(run'[r].calls)}
          /\ (run[r].pc \in SendPcs /\ run'[r].pc \in SendPcs)
               => run'[r].lead = run[r].lead
       ]_vars
  /\ [][sink' # sink =>
          \E r \in Slots :
            /\ run[r].pc \in SendPcs
            /\ sink' = Append(sink, [nr |-> run[r].nr, lead |-> run[r].lead[1]])
       ]_vars
  /\ [](\A k \in 1..Len(sink) :
          /\ sink[k].lead.demand_score >= 60
          /\ \E j \in 1..Len(leads) :
               /\ leads[j].url = sink[k].lead.url
               /\ leads[j].demand_score = sink[k].lead.demand_score
               /\ leads[j].item = sink[k].lead.item
          /\ \A j \in 1..Len(sink) : sink[j].lead.url = sink[k].lead.url => j = k)

\* A run has met, unseen and below its send cap, the hot lead a stopped
\* process had stored: save_lead reported it as not new and nothing was
\* notified for it, while the run's one notification is a lead it inserted.
C6_Witness ==
  \E r \in Slots :
    /\ run[r].pc = "done"
    /\ run[r].sent = 1
    /\ run[r].sent < settings.max_send_per_run
    /\ Len(sink) = 1
    /\ Stored(Items[1].url)
    /\ Marked(Items[1].url)
    /\ RssLeads[1].demand_score >= 60
    /\ ~Notified(Items[1].url)
    /\ run[r].new_leads < Len(leads)

\* The score the job board's lead of vacancy v must carry, from the
\* vacancy's title and summary.
ExpectedHhScore ==
  [v \in VacancyIds |-> [d \in BOOLEAN |->
     LET title == vacancy_title(v)
         summary == vacancy_summary(Vacancies[v], d)
         raw == demand_score(title, summary)
         raised == IF raw < 70 THEN 70 ELSE raw
         total == raised + strong_signal_bonus(TitleSummary(title, summary))
     IN [raw |-> raw, score |-> IF total > 100 THEN 100 ELSE total]]]

\* C8: every lead the job board builds has its raw keyword score raised to
\* at least 70 before the bonus is added: the stored demand_score is
\* min(100, max(70, demand_score(title, summary)) + strong_signal_bonus(text))
\* and lies in [70, 100]; so does the score of a lead awaiting its send.
C8_JobLeadScore ==
  /\ \A k \in 1..Len(leads) :
       leads[k].source = "HeadHunter" =>
         /\ leads[k].demand_score =
              ExpectedHhScore[leads[k].item.id][leads[k].item.detail].score
         /\ leads[k].demand_score >= 70
         /\ leads[k].demand_score <= 100
  /\ \A r \in Slots :
       run[r].pc = "hh_send" =>
         /\ run[r].lead[1].demand_score >= 70
         /\ run[r].lead[1].demand_score <= 100

\* The job board has stored a vacancy whose raw keyword score is below 70
\* with a score of exactly 70, one whose bonus takes it to the clamp of 100,
\* or one whose raw score of 80 is kept: here, the first and the last.
C8_Witness ==
  /\ \E k \in 1..Len(leads) :
       /\ leads[k].source = "HeadHunter"
       /\ ExpectedHhScore[leads[k].item.id][leads[k].item.detail].raw < 70
       /\ leads[k].demand_score = 70
  /\ \E k \in 1..Len(leads) :
       /\ leads[k].source = "HeadHunter"
       /\ ExpectedHhScore[leads[k].item.id][leads[k].item.detail].raw > 70
       /\ leads[k].demand_score = 80

(***************************************************************************)
(* Claims about the scan: feeds that fail                                  *)
(***************************************************************************)

\* The number of feeds whose fetch had one of the outcomes.
Fetched(rec, outcomes) ==
  Cardinality({k \in 1..Len(rec.fetches) : rec.fetches[k] \in outcomes})

\* rss_errors names the feeds whose fetch failed, one entry each, in order.
OneDiagnosticPerFailedFeed(rec) ==
  /\ Len(rec.rss_errors) = Fetched(rec, {"failed"})
  /\ \A j \in 1..Len(rec.rss_errors) :
       /\ rec.rss_errors[j] \in 1..Len(rec.fetches)
       /\ rec.fetches[rec.rss_errors[j]] = "failed"
       /\ \A k \in 1..Len(rec.rss_errors) :
            j < k => rec.rss_errors[j] < rec.rss_errors[k]

\* The step is the fetch of a feed that fails.
FeedFailureStep(r) ==
  /\ SameCall(r)
  /\ run[r].pc = "rss_fetch"
  /\ Len(run'[r].fetches) = Len(run[r].fetches) + 1
  /\ run'[r].fetches[Len(run'[r].fetches)] = "failed"

ExampleTitle == <<65, 108, 109, 97, 116, 121, 32, 76, 111, 103, 105, 115, 116, 105, 99, 115, 32, 76, 76, 67, 32, 45, 32, 87, 97, 114, 101, 104, 111, 117, 115, 101, 32, 77, 97, 110, 97, 103, 101, 114, 32, 124, 32, 65, 108, 109, 97, 116, 121>> (* Almaty Logistics LLC - Warehouse Manager | Almaty *)

\* Where " - ", " | " or " : " occurs in the title: the mark between two
\* spaces.
SpacedDelimiterAt(title) ==
  {i \in 1..(Len(title) - 2) :
     title[i] = 32 /\ title[i + 1] \in DELIMITER_MARKS /\ title[i + 2] = 32}

\* The title up to the least of the positions, or all of it without one.
Before(title, positions) ==
  IF positions = {} THEN title
  ELSE SubSeq(title, 1, (CHOOSE i \in positions : \A j \in positions : i <= j) - 1)

\* p[i..j] is p without a run of `chars` at each end, and the runs are
\* as long as they can be.
IsTrimAt(p, i, j, chars) ==
  /\ \A k \in 1..(i - 1) : p[k] \in chars
  /\ \A k \in (j + 1)..Len(p) : p[k] \in chars
  /\ i <= j => (p[i] \notin chars /\ p[j] \notin chars)

\* C16 as worded: the part before the first " - ", " | " or " : " (the whole
\* title without one), with no whitespace or quote character left at either
\* end; the empty string for an empty title; "Almaty Logistics LLC" for the
\* example.
C16_GuessCompanyAsWorded ==
  gc_phase = "guessed" =>
    /\ gc_title = <<>> => gc_result = <<>>
    /\ gc_result =
         TrimBoth(Before(gc_title, SpacedDelimiterAt(gc_title)),
                  WHITESPACE \cup COMPANY_QUOTES)
    /\ gc_title = ExampleTitle => gc_result = <<65, 108, 109, 97, 116, 121, 32, 76, 111, 103, 105, 115, 116, 105, 99, 115, 32, 76, 76, 67>> (* Almaty Logistics LLC *)

\* C16: guess_company returns the part of the title before the first "-",
\* "|" or ":" that stands between two whitespace characters (the whole
\* title without one), with the whitespace at its ends removed and then the
\* quote characters at its ends (whitespace inside the quotes stays); the
\* empty string for an empty title; "Almaty Logistics LLC" for the example.
C16_GuessCompany ==
  gc_phase = "guessed" =>
    /\ gc_title = <<>> => gc_result = <<>>
    /\ LET first == Before(gc_title, DelimiterAt(gc_title))
       IN \E i \in 1..(Len(first) + 1), j \in 0..Len(first) :
            /\ i <= j + 1
            /\ IsTrimAt(first, i, j, WHITESPACE)
            /\ LET candidate == SubSeq(first, i, j)
               IN \E a \in 1..(Len(candidate) + 1), b \in 0..Len(candidate) :
                    /\ a <= b + 1
                    /\ IsTrimAt(candidate, a, b, COMPANY_QUOTES)
                    /\ gc_result = SubSeq(candidate, a, b)
    /\ gc_title = ExampleTitle => gc_result = <<65, 108, 109, 97, 116, 121, 32, 76, 111, 103, 105, 115, 116, 105, 99, 115, 32, 76, 76, 67>> (* Almaty Logistics LLC *)

\* C16 witness: the example title, split at its first delimiter.
C16_Witness ==
  /\ gc_phase = "guessed"
  /\ gc_title = ExampleTitle
  /\ Cardinality(DelimiterAt(gc_title)) = 2
  /\ gc_result = <<65, 108, 109, 97, 116, 121, 32, 76, 111, 103, 105, 115, 116, 105, 99, 115, 32, 76, 76, 67>> (* Almaty Logistics LLC *)

(***************************************************************************)
(* Claims about the period preference (checked under SpecPeriod)           *)
(***************************************************************************)

\* What a chat's preference is by the calls made so far: the hours of its
\* last set_period_hours, the default without one.
HoursByCalls(c) ==
  IF chat_last.set_to[c] # None THEN chat_last.set_to[c][1] ELSE 168

\* C19: get_period_hours on a chat without a stored preference returns 168
\* and stores 168 for the chat; after set_period_hours(chat, h) every
\* get_period_hours(chat) returns h until the next set; get_period_hours
\* never changes a stored value, and no call changes another chat's value.
C19_PeriodPerChat ==
  /\ [](/\ \A c \in Chats :
             period[c] # None => period[c][1].period_hours = HoursByCalls(c)
        /\ chat_last.op = "get_period_hours" =>
             /\ chat_last.hours = HoursByCalls(chat_last.chat)
             /\ period[chat_last.chat] # None)
  /\ [][chatVars' # chatVars =>
          LET c == chat_last'.chat
          IN /\ \A d \in Chats \ {c} : period'[d] = period[d]
             /\ chat_last'.op = "get_period_hours" =>
                  /\ period[c] # None => period'[c] = period[c]
                  /\ period[c] = None =>
                       /\ chat_last'.hours = 168
                       /\ period'[c] # None
                       /\ period'[c][1].period_hours = 168
             /\ chat_last'.op = "set_period_hours" =>
                  /\ period'[c] # None
                  /\ period'[c][1].period_hours = chat_last'.hours
     ]_vars

\* C19 witness: chat 1 was set to 24 hours and a later get returned 24,
\* while chat 2 holds the default a get stored for it.
C19_Witness ==
  /\ chat_last.op = "get_period_hours"
  /\ chat_last.chat = 1
  /\ chat_last.hours = 24
  /\ chat_last.set_to[1] = Some(24)
  /\ chat_last.set_to[2] = None
  /\ period[2] # None
  /\ period[2][1].period_hours = 168

(***************************************************************************)
(* Claims about the polling lock (checked under SpecLock)                  *)
(***************************************************************************)

Polling == {i \in Instances : inst[i].pc = "polling"}

NothingCreated(rec) == ~rec.storage /\ ~rec.scheduler /\ ~rec.poller

\* C13 as worded: at any time at most one process instance polls the
\* notification channel, and an instance that found the lock held has
\* created no storage, scheduler or poller.
C13_SinglePoller ==
  /\ Cardinality(Polling) <= 1
  /\ \A i \in Instances : inst[i].pc = "exited" => NothingCreated(inst[i])

\* C13: among the process instances that come to the same lock file at most
\* one polls at any time, and it holds the lock; an instance started while
\* its lock file is locked ends at once, takes no lock, creates no storage,
\* scheduler or poller, and never polls later.
C13_OnePollerPerLock ==
  /\ [](/\ \A i, j \in Polling : inst[i].lock_dir = inst[j].lock_dir => i = j
        /\ \A i \in Polling : locks[inst[i].lock_dir] = i
        /\ \A i \in Instances : inst[i].pc = "exited" => NothingCreated(inst[i]))
  /\ [][\A i \in Instances :
          /\ (inst[i].pc = "new" /\ inst'[i].pc # "new" /\ locks[inst'[i].lock_dir] # 0)
               => /\ inst'[i].pc \in {"exited", "crashed"}
                  /\ NothingCreated(inst'[i])
                  /\ locks' = locks
          /\ inst[i].pc = "exited" => inst'[i] = inst[i]
       ]_vars

\* C13 witness: an instance polls with the lock on a file, and another
\* instance that came to the same file has ended with nothing created.
C13_Witness ==
  \E i, j \in Instances :
    /\ inst[i].pc = "polling"
    /\ locks[inst[i].lock_dir] = i
    /\ inst[j].pc = "exited"
    /\ inst[j].lock_dir = inst[i].lock_dir
    /\ NothingCreated(inst[j])

(***************************************************************************)
(* Claims about the scan: which web search runs                            *)
(***************************************************************************)

\* The call leaves the selection of lines 587-599 with this step.
LeavesSelection(r) ==
  /\ SameCall(r)
  /\ run[r].pc = "web"
  /\ run'[r].pc # "web"

\* The feeds left room under the item cap.
BudgetLeft(r) == settings.max_items_per_run - run[r].collected > 0

ExactlyOneProvider ==
  settings.yandex_xml_enabled # settings.yandex_serpapi_enabled

\* C20 as worded: a web search is called in a scan only if the feeds left
\* budget and exactly one of the two providers is enabled; with none or
\* both enabled no provider is called.
C20_WebSearchExactlyOne ==
  [][\A r \in Slots :
       LeavesSelection(r) =>
         (run'[r].pc \in {"yx_fetch", "serp_fetch"}
            <=> (BudgetLeft(r) /\ ExactlyOneProvider))
    ]_vars

\* C20: a web search is called in a scan only if the feeds left budget and
\* a provider is enabled: the XML provider when it is enabled, also when
\* both are, otherwise the SerpAPI provider when that is enabled; with none
\* enabled, or without budget, no provider is called, and never both.
C20_WebSearchSelection ==
  /\ [][\A r \in Slots :
          LeavesSelection(r) =>
            /\ run'[r].pc = "yx_fetch"
                 <=> (BudgetLeft(r) /\ settings.yandex_xml_enabled)
            /\ run'[r].pc = "serp_fetch"
                 <=> (/\ BudgetLeft(r)
                      /\ ~settings.yandex_xml_enabled
                      /\ settings.yandex_serpapi_enabled)
            /\ run'[r].pc = "jobs"
                 <=> (\/ ~BudgetLeft(r)
                      \/ (~settings.yandex_xml_enabled /\ ~settings.yandex_serpapi_enabled))
            /\ run'[r].pc \in {"yx_fetch", "serp_fetch", "jobs"}
       ]_vars
  /\ [](\A r \in Slots :
          /\ run[r].pc \in {"yx_fetch", "yx_item"} =>
               (settings.yandex_xml_enabled /\ run[r].yandex_source = "YandexXML")
          /\ run[r].pc = "serp_fetch" =>
               /\ settings.yandex_serpapi_enabled /\ ~settings.yandex_xml_enabled
               /\ run[r].yandex_source = "YandexSerpAPI"
          /\ run[r].yandex_source = "disabled" =>
               (run[r].yandex_items = 0 /\ run[r].pc \notin WebPcs))

\* C20 witness: with both providers enabled and budget left, a call has
\* fetched the XML provider's results and visits them.
C20_Witness ==
  \E r \in Slots :
    /\ settings.yandex_xml_enabled /\ settings.yandex_serpapi_enabled
    /\ run[r].pc = "yx_item"
    /\ run[r].yandex_source = "YandexXML"
    /\ run[r].yandex_items > 0
    /\ run[r].collected > 0

(***************************************************************************)
(* Claims about the scan: what is marked seen                              *)
(***************************************************************************)

\* Every URL stored as a lead has a row in `seen`.
AllLeadsMarked == \A k \in 1..Len(leads) : Marked(leads[k].url)

\* Call r takes this step.
Steps(r) == SameCall(r) /\ run'[r] # run[r]

\* The URL has a row in `seen` after the step.
MarkedNext(url) == \E s \in seen' : s.url = url

\* The item or vacancy call r visited last has been processed to the end:
\* only a vacancy whose detail is awaited is still under way.
FinishedItemUrls(r) ==
  (IF run[r].item # 0 THEN {Items[run[r].item].url} ELSE {})
    \cup (IF run[r].vacancy # 0 /\ run[r].pc # "hh_detail"
            THEN {Vacancies[run[r].vacancy].url} ELSE {})

\* C12: every item with a non-empty URL that a scan has finished processing
\* is marked seen, whether it became a lead or was dropped by the filter; a
\* step that stores a lead marks its URL in the same step, so that between
\* the steps of a run (where it yields control) and at its end every URL
\* stored as a lead stays in the seen set once it is; and a row of `seen`
\* is never removed nor its first_seen changed.
C12_ProcessedIsMarked ==
  /\ [][\A r \in Slots :
          /\ (Steps(r) /\ (AtRssItem(r) \/ AtYandexItem(r)))
               => (Items[Head(run[r].items)].url = ""
                     \/ MarkedNext(Items[Head(run[r].items)].url))
          /\ (Steps(r) /\ AtVacancy(r))
               => \/ Vacancies[Head(run[r].rest)].url = ""
                  \/ MarkedNext(Vacancies[Head(run[r].rest)].url)
                  \/ run'[r].pc = "hh_detail"
          /\ (Steps(r) /\ run[r].pc = "hh_detail")
               => MarkedNext(Vacancies[run[r].vacancy].url)
       ]_vars
  /\ [][\A k \in 1..Len(leads') :
          k > Len(leads) => MarkedNext(leads'[k].url)]_vars
  /\ [][AllLeadsMarked => AllLeadsMarked']_vars
  /\ (AllLeadsMarked => []AllLeadsMarked)
  /\ [][\A s \in seen : s \in seen']_vars
  /\ [](\A r \in Slots : \A url \in FinishedItemUrls(r) : url = "" \/ Marked(url))

\* C12 witness: an hour after an earlier scan marked them, a second scan
\* meets a URL that became a lead and a URL the filter dropped; both carry
\* the first_seen of the earlier scan, and every stored URL is marked.
C12_Witness ==
  \E r \in Slots :
    /\ run[r].nr = 2
    /\ clock = 1
    /\ run[r].pc = "rss_item"
    /\ run[r].item = 3
    /\ run[r].calls = <<"is_seen">>
    /\ [url |-> Items[3].url, first_seen |-> 0] \in seen
    /\ [url |-> Items[1].url, first_seen |-> 0] \in seen
    /\ Stored(Items[1].url)
    /\ ~Stored(Items[3].url)
    /\ AllLeadsMarked

(***************************************************************************)
(* Claims about the table `leads` under scans and chat commands            *)
(***************************************************************************)

\* The step is a chat command.
IsChatCommand == chat_last'.n = chat_last.n + 1

\* The step appends one row to `leads`.
AppendsLead == Len(leads') = Len(leads) + 1

\* Call r stores, with this step, the item it visits: a feed or web search
\* item that is not marked seen, or the vacancy whose detail was awaited
\* after it had passed the seen-check.
StoresVisitedItem(r) ==
  LET row == leads'[Len(leads')]
  IN /\ Steps(r)
     /\ row.created_at = clock
     /\ \/ /\ AtRssItem(r) \/ AtYandexItem(r)
           /\ ~Marked(Items[Head(run[r].items)].url)
           /\ row.url = Items[Head(run[r].items)].url
           /\ row.item = [kind |-> "item", id |-> Head(run[r].items), detail |-> FALSE]
        \/ /\ run[r].pc = "hh_detail"
           /\ run[r].calls = <<"is_seen">>
           /\ ~Marked(Vacancies[run[r].vacancy].url)
           /\ row.url = Vacancies[run[r].vacancy].url
           /\ row.item.kind = "vacancy" /\ row.item.id = run[r].vacancy

\* C11: stored leads are an append-only log under scans and chat commands:
\* no step removes a row or changes a field of one; a chat command leaves
\* the table as it is; a row is added only by a scan's step that processes
\* an item which passed the seen-check, one row at a time; and no URL ever
\* has two rows.
C11_AppendOnlyLog ==
  /\ [][/\ Len(leads') >= Len(leads)
        /\ \A k \in 1..Len(leads) : leads'[k] = leads[k]]_vars
  /\ [][IsChatCommand => leads' = leads]_vars
  /\ [][leads' # leads =>
          /\ AppendsLead
          /\ ~IsChatCommand
          /\ \E r \in Slots : StoresVisitedItem(r)]_vars
  /\ [](UniqueLeadUrls /\ \A k \in 1..Len(leads) : leads[k].id = k)

\* C11 witness: an hour after a scan asked for with /scan_now stored a lead
\* and ended, a lead command has answered with that lead, unchanged.
C11_Witness ==
  /\ chat_last.op \in {"radar", "hot"}
  /\ chat_last.n = 2
  /\ clock = 1
  /\ \E r \in Slots : run[r].pc = "done" /\ run[r].new_leads > 0
  /\ \E k \in chat_last.reply :
       /\ leads[k].created_at = 0
       /\ leads[k].id = k
       /\ \E i \in ItemIds : leads[k] = LeadRow(SubSeq(leads, 1, k - 1), RssLeads[i], 0)

(***************************************************************************)
(* Claims about the scan: notifications of the web search                  *)
(***************************************************************************)

\* Call r inserts, with this step, a web search result as a lead with a
\* demand_score of 60 or more while its sends are below the cap.
InsertsHotWebLead(r) ==
  /\ Steps(r)
  /\ AtYandexItem(r)
  /\ AppendsLead
  /\ leads'[Len(leads')].url = Items[Head(run[r].items)].url
  /\ leads'[Len(leads')].demand_score >= HOT_THRESHOLD
  /\ run[r].sent < settings.max_send_per_run

\* C21: a web search item that is newly inserted as a lead with
\* demand_score >= 60 while the send cap of the run is not reached has its
\* notification awaited by the step that inserts it, as a feed item has,
\* and no run returns with such a lead left out of the sink and of `sent`.
C21_WebSearchNotifies ==
  [][\A r \in Slots :
       InsertsHotWebLead(r) =>
         /\ run'[r].lead = <<YandexLeads[Head(run[r].items)]>>
         /\ run'[r].pc # "yx_item"
    ]_vars

(***************************************************************************)
(* Claims about the scan: the job board's throttle                         *)
(***************************************************************************)

\* The throttle of lines 303-310 lets the call through.
ThrottlePassed(r) ==
  scan_state = None
    \/ run[r].now - scan_state[1] >= settings.jobs_scan_interval_hours

\* Call r leaves the pc "jobs" for the job board's requests.
EntersJobBoard(r) ==
  /\ SameCall(r)
  /\ run[r].pc = "jobs"
  /\ run'[r].pc \in JobPcs

\* Call r leaves the pc "jobs" with this step.
LeavesJobsEntry(r) ==
  /\ SameCall(r)
  /\ run[r].pc = "jobs"
  /\ run'[r].pc # "jobs"

\* C22 as worded: the job board is asked in a run only if budget remains,
\* the flag is on, and no timestamp is recorded or the interval has passed
\* since it; hence no run asks the job board while a vacancy that an
\* earlier run fetched and stored is younger than the interval.
C22_JobBoardRunsApart ==
  [][\A r \in Slots :
       EntersJobBoard(r) =>
         /\ settings.max_items_per_run - run[r].collected > 0
         /\ settings.jobs_scan_enabled
         /\ ThrottlePassed(r)
         /\ \A k \in 1..Len(leads) :
              leads[k].source = "HeadHunter" =>
                run[r].now - leads[k].created_at >= settings.jobs_scan_interval_hours
    ]_vars

\* Call r ends its job-board phase with this step: scan_hh_jobs returns
\* after its requests.
CompletesJobBoard(r) ==
  /\ SameCall(r)
  /\ run[r].pc \in JobPcs
  /\ run'[r].pc = "done"

\* Call r has ended and its job-board phase was entered and not skipped.
JobBoardDone(r) ==
  /\ run[r].pc = "done"
  /\ run[r].hh_skipped_reason = NULL
  /\ ~run[r].hh_disabled

\* C23: when the job-board phase was entered and not skipped, the scan
\* state holds the run's timestamp once the phase has completed, whatever
\* was found and whichever fetch failed; a run that then reaches the job
\* board before the interval has passed is throttled and asks nothing.
C23_TimestampOnCompletion ==
  /\ [][\A r \in Slots :
          CompletesJobBoard(r) => scan_state' = Some(run[r].now)
       ]_vars
  /\ [](\A r \in Slots : JobBoardDone(r) => scan_state = Some(run[r].now))
  /\ [][\A r \in Slots :
          /\ LeavesJobsEntry(r)
          /\ settings.max_items_per_run - run[r].collected > 0
          /\ settings.jobs_scan_enabled
          /\ ~ThrottlePassed(r)
          => /\ run'[r].pc = "done"
             /\ run'[r].hh_skipped_reason = "interval not reached"
             /\ run'[r].hh_items = 0
             /\ scan_state' = scan_state
       ]_vars

\* C23 witness: the first run's job-board phase found no vacancy and had a
\* failed fetch, and the run that follows it at the same hour is throttled.
C23_Witness ==
  \E r \in Slots :
    /\ run[r].nr = 2
    /\ run[r].pc = "done"
    /\ run[r].hh_skipped_reason = "interval not reached"
    /\ scan_state = Some(run[r].now)
    /\ settings.jobs_scan_interval_hours > 0
    /\ \A k \in 1..Len(leads) : leads[k].source # "HeadHunter"

\* Call r stores a vacancy's lead built without the vacancy's detail: the
\* detail's fetch raised or was answered with a status other than 200.
StoresUnenrichedVacancy(r) ==
  /\ Steps(r)
  /\ run[r].pc = "hh_detail"
  /\ AppendsLead
  /\ ~leads'[Len(leads')].item.detail

\* C25: a vacancy whose detail fetch failed is not dropped and does not
\* end the batch: its lead is built without the detail, stored and its URL
\* marked seen, a diagnostic is appended to errors, and the loop goes on
\* with the notification or the next vacancy.
C25_DetailFailureKeepsVacancy ==
  [][\A r \in Slots :
       StoresUnenrichedVacancy(r) =>
         /\ leads'[Len(leads')].url = Vacancies[run[r].vacancy].url
         /\ leads'[Len(leads')].source = "HeadHunter"
         /\ is_seen(seen', Vacancies[run[r].vacancy].url)
         /\ run'[r].pc \in {"hh_vac", "hh_send"}
         /\ run'[r].errors = Append(run[r].errors, "HH vacancy detail error")
    ]_vars

\* Call r takes a step while it awaits the country-wide fetch of a query.
FallbackAnswered(r) == Steps(r) /\ run[r].pc = "hh_fallback"

\* The country-wide fetch of call r fails with this step.
FallbackFails(r) == FallbackAnswered(r) /\ run'[r].errors # run[r].errors

\* The sequencing of the fetches of one query: the country-wide fetch is
\* awaited only after the areas are through with found_total = 0, it is
\* answered once and the vacancies follow; an area is asked once; the next
\* query starts only from the loop over vacancies.
QueryFetchOrder(r) ==
  /\ Steps(r) /\ run'[r].pc = "hh_fallback" =>
       /\ run[r].pc = "hh_area"
       /\ run'[r].query = run[r].query
       /\ run'[r].found_total = 0
       /\ run'[r].areas = <<>>
       /\ run[r].kz_id # None
  /\ FallbackAnswered(r) =>
       /\ run'[r].pc = "hh_vac"
       /\ run'[r].query = run[r].query
  /\ Steps(r) /\ run[r].pc = "hh_area" /\ run'[r].pc = "hh_area" =>
       /\ run'[r].query = run[r].query
       /\ run'[r].areas = Tail(run[r].areas)
  /\ (/\ Steps(r)
      /\ run[r].pc \in JobPcs \ {"hh_area"}
      /\ run'[r].pc \in {"hh_area", "hh_fallback"})
     => (/\ run[r].pc = "hh_vac"
         /\ run'[r].query = run[r].query + 1)
  /\ (/\ Steps(r)
      /\ run[r].pc \in JobPcs
      /\ run'[r].pc \in JobPcs
      /\ run'[r].query # run[r].query)
     => run[r].pc = "hh_vac"

QueryFails ==
  /\ yx.pc = "query"
  /\ Len(yx'.log) = Len(yx.log) + 1
  /\ yx'.log[Len(yx'.log)] # "ok"

\* C24: a query of the web search whose fetch fails (transport error,
\* timeout, status other than 200, parse failure) does not abort the
\* phase: it adds no result and one diagnostic, the results gathered
\* before it are kept, the remaining queries are still run, and what they
\* return goes through the result loop.
C24_QueryFailureIsolated ==
  /\ [][QueryFails =>
          /\ yx'.pc = "query"
          /\ yx'.results = yx.results
          /\ Len(yx'.errors) = Len(yx.errors) + 1
       ]_vars
  /\ [](yx.pc = "phase_end" /\ yx.enabled =>
          /\ Len(yx.log) = MaxWebQueries
          /\ yx.processed = yx.results)

(***************************************************************************)
(* Claims about the scan: the order of the sources                         *)
(***************************************************************************)

RssPcs == {"rss_fetch", "rss_item", "rss_send"}

\* The phase of run_radar_once a pc belongs to: 1 the feeds, 2 the web
\* search with the test before it, 3 the job board with the tests before
\* it, 4 the return.
PhaseOf(pc) ==
  IF pc \in RssPcs THEN 1
  ELSE IF pc \in WebPcs \cup {"web"} THEN 2
  ELSE IF pc \in JobPcs \cup {"jobs"} THEN 3
  ELSE IF pc \in {"done", "raised"} THEN 4
  ELSE 0

\* The budget the phases so far have left.
BudgetLeftBy(rec) == settings.max_items_per_run - rec.collected

\* C27: a run uses its sources in the order feeds, web search, job board:
\* it never goes back to an earlier phase, asks the web search only from
\* the test that follows the feeds and the job board only from the test
\* that follows the web search, and enters the web search or the job board
\* only with a remaining budget above zero.
C27_SourceOrder ==
  [][\A r \in Slots :
       Steps(r) =>
         /\ PhaseOf(run'[r].pc) >= PhaseOf(run[r].pc)
         /\ run'[r].pc = "web" => run[r].pc \in RssPcs
         /\ run'[r].pc = "jobs" => run[r].pc \in WebPcs \cup {"web"}
         /\ run'[r].pc \in WebPcs /\ run[r].pc \notin WebPcs =>
              /\ run[r].pc = "web"
              /\ BudgetLeftBy(run[r]) > 0
         /\ run'[r].pc \in JobPcs /\ run[r].pc \notin JobPcs =>
              /\ run[r].pc = "jobs"
              /\ BudgetLeftBy(run[r]) > 0
    ]_vars

\* C27 witness: a run that took items from a feed and asked the web search
\* awaits its first answer from the job board.
C27_Witness ==
  \E r \in Slots :
    /\ run[r].pc = "hh_area"
    /\ run[r].rss_items > 0
    /\ run[r].collected > 0
    /\ run[r].yandex_source = "YandexSerpAPI"

(***************************************************************************)
(* Claims about the fetches of a scan                                      *)
(***************************************************************************)

\* C28 as worded: a fetch has returned, failed or been stopped by its
\* timeout before the next begins, so a run never has two fetches in flight.
C28_OneFetchInFlight == [](Cardinality(ff.threads) <= 1)

\* C28: a run starts a fetch only when no fetch is awaited, so it awaits
\* at most one fetch at a time; the fetches in flight besides the awaited
\* one are feed fetches whose await the outer timeout ended, and two query
\* fetches are never in flight together.
C28_OneFetchAwaited ==
  /\ [][ff'.next # ff.next =>
          /\ ff.awaited = 0
          /\ ff'.awaited = ff.next
          /\ ff'.threads = ff.threads \cup {ff.next}
       ]_vars
  /\ [](/\ ff.awaited # 0 => ff.awaited \in ff.threads
        /\ ff.threads \ {ff.awaited} \subseteq ff.abandoned
        /\ \A t \in ff.abandoned : FetchKind(t) = "feed"
        /\ \A s, t \in ff.threads :
             FetchKind(s) = "query" /\ FetchKind(t) = "query" => s = t)

\* C28 witness: the thread of a feed fetch that timed out is still running
\* while the next fetch is awaited.
C28_Witness ==
  /\ ff.awaited # 0
  /\ \E t \in ff.threads :
       /\ t # ff.awaited
       /\ t \in ff.abandoned
       /\ ff.log[t] = "timeout"

(***************************************************************************)
(* Claims about the triggers of a scan                                     *)
(***************************************************************************)

\* Call r of run_radar_once has begun and not ended.
Running(r) == run[r].pc \notin Terminal

ExcludedSegments == {"Auto/Spec Tech", "Other"}

\* Call r stores the lead of an item of a feed or of the web search.
StoresFilteredItem(r) ==
  /\ Steps(r)
  /\ AtRssItem(r) \/ AtYandexItem(r)
  /\ AppendsLead

\* C30: no item of a feed or of the web search whose segment is
\* Auto/Spec Tech or Other becomes a lead; the leads of the job board
\* carry whatever segment is detected.
C30_ExcludedSegments ==
  [][\A r \in Slots :
       StoresFilteredItem(r) =>
         leads'[Len(leads')].segment \notin ExcludedSegments
    ]_vars

(***************************************************************************)
(* Claims about the tenant matcher's district and budget steps             *)
(***************************************************************************)

\* The reasons returned hold this reason.
HasReason(reason) ==
  \E k \in 1..Len(tn_result.reasons) : tn_result.reasons[k] = reason

\* Both districts are given and, lower-cased, one is a part of the other.
DistrictsOverlap ==
  LET district == Lower(tn_profile.district)
      listing_district == Lower(tn_listing.district)
  IN /\ district # <<>>
     /\ listing_district # <<>>
     /\ \/ Contains(district, listing_district)
        \/ Contains(listing_district, district)

\* C31: tenant_match_score gives the district bonus (+25, reason "нужный
\* район") whenever both districts are given and one is, without regard to
\* case, a part of the other, in either direction.
C31_DistrictEitherDirection ==
  (tn_phase = "matched" /\ DistrictsOverlap) =>
    /\ HasReason(REASON_DISTRICT)
    /\ DistrictStep(tn_profile, tn_listing).points = 25

\* Both budget bounds and the price are given and the price is outside
\* [budget_min, budget_max].
OutsideBudget ==
  /\ tn_profile.budget_min # None /\ tn_profile.budget_max # None
  /\ tn_listing.price # None
  /\ ~(/\ tn_profile.budget_min[1] <= tn_listing.price[1]
       /\ tn_listing.price[1] <= tn_profile.budget_max[1])

\* The distance from the price to the nearer bound is at most 10% of that
\* bound.
WithinTenthOfNearerBound ==
  LET price == tn_listing.price[1]
      budget_min == tn_profile.budget_min[1]
      budget_max == tn_profile.budget_max[1]
      nearer == IF Abs(price - budget_min) <= Abs(price - budget_max)
                  THEN budget_min ELSE budget_max
  IN 10 * Abs(price - nearer) <= nearer

\* C32: with both bounds set and the price outside them, tenant_match_score
\* gives the near-budget bonus (+15) exactly when the distance from the
\* price to the nearer bound is at most 10% of that bound, and otherwise
\* no points for the price.
C32_NearBudgetOfNearerBound ==
  (tn_phase = "matched" /\ OutsideBudget) =>
    /\ HasReason(REASON_NEAR_BUDGET) <=> WithinTenthOfNearerBound
    /\ BudgetStep(tn_profile, tn_listing).points =
         IF WithinTenthOfNearerBound THEN 15 ELSE 0


(***************************************************************************)
(* /tenant_matches: what is shown                                          *)
(***************************************************************************)

\* the listings the command read and their scores
ReadScored ==
  IF get_tenant_profile(tenant_profiles, tm.chat) = None THEN <<>>
  ELSE ScoreListings(get_tenant_profile(tenant_profiles, tm.chat)[1],
                     list_listings(tm.rows, LISTINGS_LIMIT))

Times(entry, seq) == Cardinality({k \in 1..Len(seq) : seq[k] = entry})

\* the entries of shown are entries read, each shown no more often than it
\* was read, and every entry read that was not shown scores no more than
\* any entry shown
HighestScoring(shown, read) ==
  /\ \A k \in 1..Len(shown) : Times(shown[k], shown) <= Times(shown[k], read)
  /\ \A i \in 1..Len(read) :
       Times(read[i], shown) < Times(read[i], read) =>
         \A k \in 1..Len(shown) : shown[k].score >= read[i].score

BestScore(read) ==
  IF read = <<>> THEN 0
  ELSE CHOOSE s \in {read[k].score : k \in 1..Len(read)} :
         \A k \in 1..Len(read) : read[k].score <= s

\* C33: /tenant_matches shows at most 5 listings, the highest-scoring of
\* the listings read, in non-increasing order of score; a command that ran
\* to its end for a chat with a profile showed min(5, number read) listings
\* and no suggestion when the best score is above 0, and no listing and
\* one relaxed-criteria suggestion when the best score is 0 or nothing was
\* read.
C33_TopFiveByScore ==
  tm.phase # "idle" =>
    /\ Len(tm.shown) <= 5
    /\ \A k \in 1..(Len(tm.shown) - 1) : tm.shown[k].score >= tm.shown[k + 1].score
    /\ HighestScoring(tm.shown, ReadScored)
    /\ (tm.phase = "done" /\ get_tenant_profile(tenant_profiles, tm.chat) # None) =>
         IF BestScore(ReadScored) = 0
         THEN /\ tm.shown = <<>>
              /\ tm.notes \in {<<"no_listings">>, <<"no_match">>}
              /\ (tm.notes = <<"no_listings">>) <=> (ReadScored = <<>>)
         ELSE /\ Len(tm.shown) = Min2(5, Len(ReadScored))
              /\ tm.notes = <<>>

\* Six listings were read, two of them with a higher score than the others,
\* and the command showed five and ended.
C33_Witness ==
  /\ tm.phase = "done"
  /\ Len(ReadScored) = 6
  /\ Len(tm.shown) = 5
  /\ tm.shown[1].score > tm.shown[3].score
  /\ \E i \in 1..Len(ReadScored) :
       /\ ReadScored[i].score < ReadScored[6].score
       /\ ReadScored[6].score = BestScore(ReadScored)

(***************************************************************************)
(* The questionnaire: what is stored and when                              *)
(***************************************************************************)

\* the step took a message of chat c
TookFrom(c) == handled' = handled + 1 /\ tf_last'.chat = c

\* the step took an answer of chat c that completed its questionnaire: the
\* flow stood at the seventh step and the answer was accepted
CompletedBy(c) ==
  /\ TookFrom(c)
  /\ tf_last'.handler = "handle_tenant_flow_message"
  /\ tenant_flows[c] # None
  /\ tenant_flows[c][1].step_index = 6
  /\ tf_last'.what = "completed"

\* C34: the stored profile of a chat changes only in the step that takes
\* the accepted answer to the seventh question of that chat's
\* questionnaire; a step that starts or restarts the questionnaire, cancels
\* it, rejects an answer or accepts an answer to one of the first six
\* questions leaves every stored profile as it was.
C34_StoredOnlyOnCompletion ==
  [][\A c \in Chats :
       tenant_profiles'[c] # tenant_profiles[c] => CompletedBy(c)]_vars

\* Chat 2, which had no stored profile, has answered all seven questions and
\* has one now, after a rejected answer or a restart on the way is excluded
\* by the number of messages; the last message was the seventh answer.
C34_Witness ==
  /\ tf_last.chat = 2
  /\ tf_last.what = "completed"
  /\ tenant_profiles[2] # None
  /\ tenant_flows[2] = None

\* the data a flow holds after the answer to its current step was recorded
AnswersWith(flow, text) ==
  UpdateData(flow.data, StepUpdates(TENANT_FLOW_STEPS[flow.step_index + 1], text)[1])

\* C35: the step that takes the accepted seventh answer of a chat makes the
\* chat's stored profile exactly the answers collected (nothing of an older
\* profile is kept) and removes the chat from tenant_flows; a message
\* without a leading "/" of a chat that is not in tenant_flows is not
\* recorded: it starts no flow and changes no profile.
C35_CompletionStoresAndEnds ==
  [][\A c \in Chats :
       /\ CompletedBy(c) =>
            /\ tenant_profiles'[c] =
                 Some(AnswersWith(tenant_flows[c][1], StripWhitespace(tf_last'.text[1])))
            /\ tenant_flows'[c] = None
       /\ (/\ TookFrom(c)
           /\ tenant_flows[c] = None
           /\ tf_last'.handler = "handle_tenant_flow_message") =>
            /\ tf_last'.what = "not_in_flows"
            /\ tenant_flows'[c] = None
            /\ tenant_profiles' = tenant_profiles]_vars

\* Chat 1 had an earlier profile, has completed a new questionnaire with
\* another district, and its next message was not taken as an answer.
C35_Witness ==
  /\ tf_last.chat = 1
  /\ tf_last.what = "not_in_flows"
  /\ tf_last.text = Some(<<1044, 1072>> (* Да *))
  /\ tenant_flows[1] = None
  /\ tenant_profiles[1] # None
  /\ tenant_profiles[1] # Some(EarlierProfile)

(***************************************************************************)
(* The questionnaire as a step machine                                     *)
(***************************************************************************)

HasDigit(text) == \E i \in 1..Len(text) : IsDigit(text[i])

\* the answers the claim counts as rejected at a step
RejectedAt(step_key, text) ==
  \/ step_key = "budget" /\ ~HasDigit(text)
  \/ step_key = "occupants" /\ (parse_positive_int(text) = None)
  \/ step_key \in {"pets", "parking"} /\ Lower(text) \notin (YES_VALUES \cup NO_VALUES)

\* the keys of the data that the answer to a step fills
FieldsOf(step_key) ==
  IF step_key = "budget" THEN {"budget_min", "budget_max"} ELSE {step_key}

\* what is held for a key is what that step may record
Recorded(step_key, data, text) ==
  /\ step_key = "budget" => data.budget_min # None \/ data.budget_max # None
  /\ step_key = "occupants" => data.occupants > 0
  /\ step_key = "pets" => data.pets \in {ANSWER_YES, ANSWER_NO}
  /\ step_key = "parking" => data.parking \in {ANSWER_YES, ANSWER_NO}
  /\ step_key \in {"district", "move_in", "property_type"} => data[step_key] = text

\* the step took an answer of chat c to the question its flow stands at
AnsweredBy(c) ==
  /\ TookFrom(c)
  /\ tf_last'.handler = "handle_tenant_flow_message"
  /\ tenant_flows[c] # None
  /\ tf_last'.what \in {"asked", "completed", "rejected"}

\* C36: a flow stands at one of the seven steps, in the order budget,
\* district, move_in, property_type, occupants, pets, parking. An answer
\* is rejected exactly when it is a budget without a number, occupants that
\* are no positive integer or pets/parking that are no recognised yes/no,
\* and then the flows are left as they were. Any other answer fills the
\* fields of the step and no other field, and the step index grows by one
\* (after the seventh step the data go to the store and the flow ends).
\* pets and parking are held only as "да" or "нет", occupants only as a
\* positive integer.
C36_StepMachine ==
  [][\A c \in Chats :
       AnsweredBy(c) =>
         LET flow == tenant_flows[c][1]
             step_key == TENANT_FLOW_STEPS[flow.step_index + 1]
             text == StripWhitespace(tf_last'.text[1])
             data == IF tf_last'.what = "completed" THEN tenant_profiles'[c][1]
                     ELSE tenant_flows'[c][1].data
         IN /\ flow.step_index \in 0..6
            /\ (tf_last'.what = "rejected") <=> RejectedAt(step_key, text)
            /\ tf_last'.what = "rejected" => tenant_flows' = tenant_flows
            /\ tf_last'.what = "asked" =>
                 /\ tenant_flows'[c] # None
                 /\ tenant_flows'[c][1].step_index = flow.step_index + 1
            /\ (tf_last'.what = "completed") <=> (flow.step_index = 6 /\ ~RejectedAt(step_key, text))
            /\ tf_last'.what # "rejected" =>
                 /\ \A key \in DOMAIN flow.data \ FieldsOf(step_key) : data[key] = flow.data[key]
                 /\ Recorded(step_key, data, text)]_vars

\* A flow has its occupants and stands at the pets question, where the last
\* answer was rejected.
C36_Witness ==
  /\ tf_last.what = "rejected"
  /\ tenant_flows[tf_last.chat] # None
  /\ tenant_flows[tf_last.chat][1].step_index = 5
  /\ tenant_flows[tf_last.chat][1].data.occupants = 200
  /\ tenant_flows[tf_last.chat][1].data.district = <<78>> (* N *)

(***************************************************************************)
(* The questionnaires of different chats                                   *)
(***************************************************************************)

\* C40: a step that takes a message of one chat, whatever the message,
\* leaves the flow and the stored profile of every other chat as they
\* were; and a message of a chat that is not in tenant_flows leaves it out
\* of tenant_flows, unless the message is the /tenant command.
C40_ChatsIsolated ==
  [][\A c \in Chats :
       TookFrom(c) =>
         /\ \A d \in Chats \ {c} :
              /\ tenant_flows'[d] = tenant_flows[d]
              /\ tenant_profiles'[d] = tenant_profiles[d]
         /\ (tenant_flows[c] = None /\ tf_last'.handler # "handle_tenant_start") =>
              tenant_flows'[c] = None]_vars

\* Chat 2 is three steps into its questionnaire and chat 1, with a flow of
\* its own at another step, has just had an answer accepted.
C40_Witness ==
  /\ tenant_flows[1] # None /\ tenant_flows[2] # None
  /\ tenant_flows[2][1].step_index = 3
  /\ tenant_flows[1][1].step_index = 2
  /\ tf_last.chat = 1
  /\ tf_last.what = "asked"
  /\ tenant_flows[1][1].data.district # tenant_flows[2][1].data.district

(***************************************************************************)
(* /scan_now among the handlers                                            *)
(***************************************************************************)

\* C37: every /scan_now message, with or without a questionnaire in
\* progress for its chat, is handled by handle_scan_now (which makes one
\* scan run and sends one reply, the report or one "ERROR: ..." line).
C37_ScanNowReachesHandler ==
  tf_last.text = Some(<<47, 115, 99, 97, 110, 95, 110, 111, 119>> (* /scan_now *)) => tf_last.handler = "handle_scan_now"

(***************************************************************************)
(* Overlapping scans: one lead and one notification per URL                *)
(***************************************************************************)

\* the notifications for a URL: those delivered and those a call is
\* awaiting the delivery of
Delivered(url) == {k \in 1..Len(sink) : sink[k].lead.url = url}
Awaited(url) ==
  {r \in Slots : run[r].pc = "rss_send" /\ run[r].lead # NoLead /\ run[r].lead[1].url = url}

\* call r goes to the await of send_message in this step
StartsNotifying(r) == run[r].pc # "rss_send" /\ run'[r].pc = "rss_send"

ReportsSentWithinNew(report) == report.sent <= report.new_leads
ReportsNewAndSeenWithinCollected(report) ==
  report.new_leads + report.seen <= report.collected
ReportsCollectedWithinItems(report) ==
  report.collected <= report.rss_items + report.yandex_items + report.hh_items
ReportsFeedsWithinTotal(report) ==
  report.feeds_ok + report.feeds_failed <= report.feeds_total
ReportsTwoLinks(report) == Len(report.hh_links) <= 2

\* C39: in every report run_radar_once returns, sent <= new_leads,
\* new_leads + seen <= collected, collected <= rss_items + yandex_items +
\* hh_items, feeds_ok + feeds_failed <= feeds_total, and hh_links has at
\* most 2 entries.
C39_ReportConsistent ==
  \A r \in Slots : run[r].pc = "done" =>
    LET report == Report(run[r])
    IN /\ ReportsSentWithinNew(report)
       /\ ReportsNewAndSeenWithinCollected(report)
       /\ ReportsCollectedWithinItems(report)
       /\ ReportsFeedsWithinTotal(report)
       /\ ReportsTwoLinks(report)

\* A call returned a report that counts a notification, a URL seen before
\* and a failed feed, and gives two job-board links.
C39_Witness ==
  \E r \in Slots :
    /\ run[r].pc = "done"
    /\ Report(run[r]).sent >= 1
    /\ Report(run[r]).seen >= 1
    /\ Report(run[r]).feeds_failed >= 1
    /\ Len(Report(run[r]).hh_links) = 2
    /\ Report(run[r]).hh_items >= 1
(***************************************************************************)
(* Specifications                                                          *)
(***************************************************************************)

\* The storage gateway under any sequence of direct calls.
InitStorage ==
  StorageInit /\ ScoreIdle /\ TenantIdle /\ RadarIdle /\ ChatIdle /\ CompanyIdle /\ LockIdle /\ WebFetchIdle /\ FetchesIdle /\ MatchesIdle /\ FlowIdle
NextStorage == StSaveLead \/ StMarkSeen \/ StIsSeen \/ Tick
SpecStorage == InitStorage /\ [][NextStorage]_vars

\* The keyword scorer on bounded texts.
InitScore ==
  ScoreIdle /\ TenantIdle /\ StorageInit /\ RadarIdle /\ ChatIdle /\ CompanyIdle /\ LockIdle /\ WebFetchIdle /\ FetchesIdle /\ MatchesIdle /\ FlowIdle
NextScore == ScAppendTitle \/ ScAppendSummary \/ ScScore
SpecScore == InitScore /\ [][NextScore]_vars

\* The tenant matcher on bounded profiles and listings.
InitTenant ==
  TenantInit /\ ScoreIdle /\ StorageInit /\ RadarIdle /\ ChatIdle /\ CompanyIdle /\ LockIdle /\ WebFetchIdle /\ FetchesIdle /\ MatchesIdle /\ FlowIdle
NextTenant == TnMatch
SpecTenant == InitTenant /\ [][NextTenant]_vars

\* guess_company on the titles of the catalogue.
InitCompany ==
  CompanyInit /\ ScoreIdle /\ TenantIdle /\ StorageInit /\ RadarIdle /\ ChatIdle /\ LockIdle /\ WebFetchIdle /\ FetchesIdle /\ MatchesIdle /\ FlowIdle
NextCompany == GcGuess
SpecCompany == InitCompany /\ [][NextCompany]_vars

\* The period calls of the storage gateway under any sequence of calls.
InitPeriod ==
  ChatIdle /\ StorageInit /\ ScoreIdle /\ TenantIdle /\ RadarIdle /\ CompanyIdle /\ LockIdle /\ WebFetchIdle /\ FetchesIdle /\ MatchesIdle /\ FlowIdle
NextPeriod == PdGet \/ PdSet \/ Tick
SpecPeriod == InitPeriod /\ [][NextPeriod]_vars

\* Process instances started and stopped in any order.
InitLock ==
  LockIdle /\ StorageInit /\ ScoreIdle /\ TenantIdle /\ RadarIdle /\ ChatIdle /\ CompanyIdle /\ WebFetchIdle /\ FetchesIdle /\ MatchesIdle /\ FlowIdle
NextLock ==
  \E i \in Instances :
    InstAcquire(i) \/ InstLockHeld(i) \/ InstLockError(i) \/ InstSetupFail(i) \/ InstStop(i)
SpecLock == InitLock /\ [][NextLock]_vars

\* One call of fetch_yandex_xml_results inside scan_yandex_xml, each query
\* answered in any of the ways it can be.
InitWebFetch ==
  /\ WebFetchInit
  /\ StorageInit /\ ScoreIdle /\ TenantIdle /\ RadarIdle /\ ChatIdle /\ CompanyIdle /\ LockIdle
  /\ FetchesIdle /\ MatchesIdle /\ FlowIdle
NextWebFetch ==
  \/ YxDisabled \/ YxTransportError \/ YxNon200 \/ YxParseError \/ YxQueryOk
  \/ YxReturn \/ YxScanCatch \/ YxScanResults
SpecWebFetch == InitWebFetch /\ [][NextWebFetch]_vars

\* The fetches of one call of run_radar_once, each ending in any of the
\* ways it can end.
InitFetches ==
  /\ FetchesInit
  /\ StorageInit /\ ScoreIdle /\ TenantIdle /\ RadarIdle /\ ChatIdle /\ CompanyIdle /\ LockIdle
  /\ WebFetchIdle /\ MatchesIdle /\ FlowIdle
NextFetches == FetchStart \/ FetchEnds \/ FetchTimesOut \/ StrayFetchEnds
SpecFetches == InitFetches /\ [][NextFetches]_vars

\* Scans one after another, of a process started with any of the settings.
Init ==
  /\ \E s \in SettingsSpace : RadarStart(s)
  /\ \E db \in Databases : DatabaseOpened(db)
  /\ ScoreIdle /\ TenantIdle /\ ChatIdle /\ CompanyIdle /\ LockIdle /\ WebFetchIdle /\ FetchesIdle /\ MatchesIdle /\ FlowIdle
Next == Wait \/ \E r \in Slots : RunStep(r)
Spec == Init /\ [][Next]_vars

\* The chat commands of a process in any order, /scan_now among them, its
\* scans one after another and the other commands between their steps.
ChatSettings == {s \in SettingsSpace : s.yandex_serpapi_enabled}
InitChat ==
  /\ \E s \in ChatSettings : RadarStart(s)
  /\ \E db \in Databases : DatabaseOpened(db)
  /\ ScoreIdle /\ TenantIdle /\ ChatIdle /\ CompanyIdle /\ LockIdle /\ WebFetchIdle /\ FetchesIdle /\ MatchesIdle /\ FlowIdle
NextChat == ChatCommand \/ Wait \/ \E r \in Slots : ScanStep(r)
SpecChat == InitChat /\ [][NextChat]_vars

\* The scheduler's job and /scan_now on one event loop, each starting its
\* call of run_radar_once when it is triggered; a call runs until its next
\* await and the other goes on from there.
OverlapSettings ==
  {s \in SettingsSpace : ~s.jobs_scan_enabled /\ ~s.yandex_xml_enabled /\ s.max_send_per_run > 0}
InitOverlap ==
  /\ \E s \in OverlapSettings : RadarStart(s)
  /\ \E db \in Databases : DatabaseOpened(db)
  /\ ScoreIdle /\ TenantIdle /\ ChatIdle /\ CompanyIdle /\ LockIdle /\ WebFetchIdle /\ FetchesIdle /\ MatchesIdle /\ FlowIdle
NextOverlap == StartTimerScan \/ StartScanNow \/ \E r \in Slots : OverlapStep(r)
SpecOverlap == InitOverlap /\ [][NextOverlap]_vars

\* One /tenant_matches, with any listings in the table.
InitMatches ==
  /\ MatchesInit
  /\ tenant_profiles \in StoredProfiles
  /\ tenant_flows = [c \in Chats |-> None] /\ tf_last = NoMessage /\ handled = 0
  /\ StorageInit /\ ScoreIdle /\ TenantIdle /\ RadarIdle /\ ChatIdle /\ CompanyIdle /\ LockIdle
  /\ WebFetchIdle /\ FetchesIdle
NextMatches ==
  \/ \E c \in Chats : TmNoProfile(c) \/ TmNoListings(c) \/ TmNoMatch(c) \/ TmRank(c)
  \/ TmSend \/ TmSendFails
SpecMatches == InitMatches /\ [][NextMatches]_vars

\* The messages of two chats in any order, each handled by the handler the
\* dispatcher gives it to.
InitFlow ==
  /\ FlowInit /\ MatchesIdle
  /\ StorageInit /\ ScoreIdle /\ TenantIdle /\ RadarIdle /\ ChatIdle /\ CompanyIdle /\ LockIdle
  /\ WebFetchIdle /\ FetchesIdle
NextFlow ==
  \E c \in Chats, message_text \in MessageTexts :
    TenantStart(c, message_text) \/ TenantFlowMessage(c, message_text)
SpecFlow == InitFlow /\ [][NextFlow]_vars

\* The same scans under the event loop's scheduling: a call that can take a
\* step takes one (every await returns or raises).
SpecLive == Spec /\ WF_vars(\E r \in Slots : RunStep(r))

=============================================================================
